---- MODULE Spec2Model ----
(***************************************************************************)
(* Model of the alex-db storage engine (alex-db-lib/src/db.rs): the        *)
(* primary map `values`, the four secondary indexes, the stats counters    *)
(* and the operations of `impl Db`.                                        *)
(*                                                                         *)
(* Specification Spec runs the operations one after the other (every       *)
(* action is one complete call of a Db method).                            *)
(***************************************************************************)
EXTENDS Integers, Sequences, FiniteSets, TLC

\* ---------------------------------------------------------------- bounds
\* The clock (Utc::now()) takes the instants 0..MaxTime.
MaxTime == 2
\* At most MaxIds calls of Uuid::new_v4() are made; the ids are 1..MaxIds.
MaxIds == 2
\* No client call is started once stats.requests has reached MaxRequests
\* (gc, run by the periodic worker, is not a client call).
MaxRequests == 2
\* Width of Value::Integer in the model (i64 in the code, scaled down).
IntBits == 2

\* Width of usize in the model (64 bits in the code, scaled down).
UsizeBits == 4

IntMin == -(2 ^ (IntBits - 1))
IntMax == (2 ^ (IntBits - 1)) - 1

\* ------------------------------------------------------------ Option<T>
None == [some |-> FALSE, v |-> 0]
Some(x) == [some |-> TRUE, v |-> x]

\* ---------------------------------------------------------------- Value
Integer(n) == [tag |-> "Integer", int |-> n, text |-> ""]
String(s) == [tag |-> "String", int |-> 0, text |-> s]

\* --------------------------------------------------------------- inputs
Keys == {"a", "b"}
Ids == 1..MaxIds
Times == 0..MaxTime
\* ttl in seconds; one clock unit of the model is one second
Ttls == {None, Some(1)}
PostValues == {Integer(IntMax), Integer(IntMin), String("hi")}
Amounts == {None, Some(0), Some(1), Some(-1), Some(IntMin)}

\* the keys in the order of String's Ord (lexicographic)
KeyOrder == <<"a", "b">>
Sorts == {"CreatedAt", "Key", "UpdatedAt"}
Directions == {"Asc", "Desc"}
UsizeMax == (2 ^ UsizeBits) - 1
\* a page number p with (p - 1) * 2 = 2^UsizeBits
HugePage == (2 ^ (UsizeBits - 1)) + 1
\* the <<limit, page>> arguments of the paginated select_all calls
Paginations == {<<Some(2), None>>, <<None, Some(1)>>, <<Some(1), Some(2)>>,
                <<Some(2), Some(HugePage)>>, <<Some(2), Some(0)>>}
\* the <<sort, direction, limit, page>> arguments of the select_all calls:
\* every order unpaginated, one order paginated
SelectAllArgs ==
    {<<sort, direction, None, None>> : sort \in Sorts, direction \in Directions}
        \cup {<<"CreatedAt", "Asc", lp[1], lp[2]>> : lp \in Paginations}

\* ------------------------------------------- HashMap / BTreeMap helpers
EmptyMap == [x \in {} |-> 0]
MapInsert(m, k, v) == [x \in (DOMAIN m) \cup {k} |-> IF x = k THEN v ELSE m[x]]
MapRemove(m, k) == [x \in (DOMAIN m) \ {k} |-> m[x]]

\* the elements of a sequence
Range(seq) == {seq[i] : i \in 1..Len(seq)}

RECURSIVE SortedSeq(_)
\* BTreeMap::iter(): the keys of an i64-keyed index in ascending order
SortedSeq(S) ==
    IF S = {} THEN << >>
    ELSE LET m == CHOOSE x \in S : \A y \in S : x <= y
         IN <<m>> \o SortedSeq(S \ {m})

VARIABLES
    values,            \* Db.values: id -> ValueRecord
    key_index,         \* Db.indexes.key: key -> id
    created_at_index,  \* Db.indexes.created_at: instant -> id
    delete_at_index,   \* Db.indexes.delete_at: instant -> id
    updated_at_index,  \* Db.indexes.updated_at: instant -> id
    stats,             \* Db.stats
    poisoned,          \* the RwLocks a panic has poisoned
    now,               \* the clock read by Utc::now()
    minted,            \* number of ids Uuid::new_v4() has produced
    overflow_checks,   \* build profile: TRUE = debug (overflow panics)
    result,            \* the last call: operation, arguments, outcome
    config,            \* Db.config
    api_keys,          \* Db.api_keys
    files,             \* the six files of the data directory
    gc_task,           \* a gc() call between its scan and its last delete
    save_task,         \* a save() call between its first and last write
    callers,           \* the concurrent callers of api_key_init
    threads,           \* the threads that call the store: call, position
    guards             \* who holds each RwLock of the Db

vars == <<values, key_index, created_at_index, delete_at_index,
          updated_at_index, stats, poisoned, now, minted, overflow_checks,
          result, config, api_keys, files, gc_task, save_task, callers, threads, guards>>

\* what the calls on the maps of the store leave alone
others == <<config, api_keys, files, gc_task, save_task, callers, threads, guards>>

\* The Db as one value, so that a method is a function from Db to Db.
Db == [values |-> values, key |-> key_index, created_at |-> created_at_index,
       delete_at |-> delete_at_index, updated_at |-> updated_at_index,
       stats |-> stats, poisoned |-> poisoned]

\* What a call hands back: the Db after it, the outcome
\* ("Some", "None", "Ok", "NotFound" for Err(Error::NotFound), "Panic")
\* and the record of a "Some" outcome.
NoRecord == [id |-> 0, key |-> "", value |-> Integer(0), created_at |-> 0,
             delete_at |-> None, updated_at |-> 0]
Return(d, outcome, rec) == [db |-> d, outcome |-> outcome, rec |-> rec]

\* A panic unwinds through the write guards the call holds and poisons
\* their locks; the data already written stays written.
Panic(d, held) == Return([d EXCEPT !.poisoned = @ \cup held], "Panic", NoRecord)

\* ValueRecord::new(id, key, value, created_at, delete_at, updated_at)
ValueRecord(id, key, value, created_at, delete_at, updated_at) ==
    [id |-> id, key |-> key, value |-> value, created_at |-> created_at,
     delete_at |-> delete_at, updated_at |-> updated_at]

\* StatRecord
StatRecordDefault == [requests |-> 0, reads |-> 0, writes |-> 0,
                      saved_writes |-> 0, last_saved_at |-> 0]
inc_requests(s) == [s EXCEPT !.requests = @ + 1]
inc_reads(s) == [s EXCEPT !.reads = @ + 1]
inc_writes(s) == [s EXCEPT !.writes = @ + 1]

\* now + Duration::seconds(ttl)
DeleteAt(ttl, t) == IF ttl.some THEN Some(t + ttl.v) ELSE None

\* ------------------------------------------------- i64 arithmetic
InRange(x) == x >= IntMin /\ x <= IntMax
\* two's complement wrap-around of a release build
wrapping(x) == ((x - IntMin) % (2 ^ IntBits)) + IntMin
\* i64::abs
i64_abs(x) == IF x < 0 THEN wrapping(0 - x) ELSE x
abs_overflows(x) == x < 0 /\ ~InRange(0 - x)

\* ------------------------------------------------------- try_insert
try_insert(d, key, value, ttl, id, t) ==
    IF "stats" \in d.poisoned THEN Panic(d, {})
    ELSE IF "values" \in d.poisoned
         THEN Panic([d EXCEPT !.stats = inc_requests(@)], {"stats"})
    ELSE
    LET delete_at == DeleteAt(ttl, t)
        value_record == ValueRecord(id, key, value, t, delete_at, t)
        values1 == MapInsert(d.values, id, value_record)
        res == values1[id]
        created1 == MapInsert(d.created_at, res.created_at, id)
        delete1 == IF delete_at.some
                   THEN MapInsert(d.delete_at, delete_at.v, id)
                   ELSE d.delete_at
        key1 == MapInsert(d.key, key, id)
        updated1 == MapInsert(d.updated_at, res.updated_at, id)
    IN Return([d EXCEPT !.stats = inc_writes(inc_requests(@)),
                        !.values = values1,
                        !.created_at = created1,
                        !.delete_at = delete1,
                        !.key = key1,
                        !.updated_at = updated1],
              "Some", res)

\* ------------------------------------------------------- try_upsert
\* a try_upsert that stamps the record as newly created
upsert_record_fresh(id, key, value, original_value, delete_at, t) ==
    ValueRecord(id, key, value, t, delete_at, t)

\* the record try_upsert builds (ValueRecord::new call, lines 494-501)
upsert_record(id, key, value, original_value, delete_at, t) ==
    ValueRecord(id, key, value, original_value.created_at, delete_at, t)

try_upsert(d, key, value, ttl, t) ==
    IF "stats" \in d.poisoned THEN Panic(d, {})
    ELSE LET d1 == [d EXCEPT !.stats = inc_requests(@)] IN
    IF "key" \in d.poisoned THEN Panic(d1, {"stats"})
    \* key_index.get(&value_put.key).unwrap()
    ELSE IF key \notin DOMAIN d.key THEN Panic(d1, {"stats", "key"})
    ELSE LET id == d.key[key] IN
    IF "values" \in d.poisoned THEN Panic(d1, {"stats", "key"})
    \* values.get(&id).ok_or(Error::NotFound)?
    ELSE IF id \notin DOMAIN d.values THEN Return(d1, "NotFound", NoRecord)
    ELSE
    LET original_value == d.values[id]
        delete_at == DeleteAt(ttl, t)
        value_record == upsert_record(id, key, value, original_value,
                                      delete_at, t)
        values1 == MapInsert(d.values, id, value_record)
        res == values1[id]
        delete1 == IF original_value.delete_at.some
                   THEN MapRemove(d.delete_at, original_value.delete_at.v)
                   ELSE d.delete_at
        delete2 == IF delete_at.some
                   THEN MapInsert(delete1, delete_at.v, id)
                   ELSE delete1
        key1 == MapInsert(MapRemove(d.key, original_value.key), key, id)
        updated1 == MapInsert(MapRemove(d.updated_at, original_value.updated_at),
                              res.updated_at, id)
    IN Return([d1 EXCEPT !.stats = inc_writes(@),
                         !.values = values1,
                         !.delete_at = delete2,
                         !.key = key1,
                         !.updated_at = updated1],
              "Some", res)

\* --------------------------------------- try_increment / try_decrement
\* original_value + increment.abs(), original_value + 1 (release build)
increment_value(n, increment) ==
    IF increment.some THEN wrapping(n + i64_abs(increment.v))
    ELSE wrapping(n + 1)

\* original_value - decrement.abs(), original_value - 1 (release build)
decrement_value(n, decrement) ==
    IF decrement.some THEN wrapping(n - i64_abs(decrement.v))
    ELSE wrapping(n - 1)

\* the arithmetic of try_increment overflows i64 (abs or +)
increment_overflows(n, increment) ==
    IF increment.some
    THEN abs_overflows(increment.v) \/ ~InRange(n + i64_abs(increment.v))
    ELSE ~InRange(n + 1)

\* the arithmetic of try_decrement overflows i64 (abs or -)
decrement_overflows(n, decrement) ==
    IF decrement.some
    THEN abs_overflows(decrement.v) \/ ~InRange(n - i64_abs(decrement.v))
    ELSE ~InRange(n - 1)

\* the record try_increment / try_decrement builds (lines 395-402, 307-314)
counter_record(id, original_value, value, t) ==
    ValueRecord(id, original_value.key, value, original_value.created_at,
                original_value.delete_at, t)

\* a type mismatch that still counts a write and re-stamps updated_at
type_mismatch_touch(d, original_value, t) ==
    Return([d EXCEPT !.stats = inc_writes(@),
                     !.values = MapInsert(@, original_value.id,
                                          [original_value EXCEPT !.updated_at = t]),
                     !.updated_at = MapInsert(MapRemove(@, original_value.updated_at),
                                              t, original_value.id)],
           "None", NoRecord)

\* `_ => return Ok(None)`: the value is not an Integer (lines 391, 303)
type_mismatch(d, original_value, t) == Return(d, "None", NoRecord)

\* The common body of try_increment (increments = TRUE) and try_decrement
\* (increments = FALSE), which differ in the arithmetic only.
\* A debug build panics on overflow, a release build wraps.
try_counter(d, key, amount, t, checks, increments) ==
    IF "stats" \in d.poisoned THEN Panic(d, {})
    ELSE LET d1 == [d EXCEPT !.stats = inc_requests(@)] IN
    IF "key" \in d.poisoned THEN Panic(d1, {"stats"})
    \* key_index.get(key).unwrap()
    ELSE IF key \notin DOMAIN d.key THEN Panic(d1, {"stats", "key"})
    ELSE LET id == d.key[key] IN
    IF "values" \in d.poisoned THEN Panic(d1, {"stats", "key"})
    \* values.get(&id).ok_or(Error::NotFound)?
    ELSE IF id \notin DOMAIN d.values THEN Return(d1, "NotFound", NoRecord)
    ELSE LET original_value == d.values[id] IN
    \* _ => return Ok(None)
    IF original_value.value.tag # "Integer"
    THEN type_mismatch(d1, original_value, t)
    ELSE IF checks /\ (IF increments
                       THEN increment_overflows(original_value.value.int, amount)
                       ELSE decrement_overflows(original_value.value.int, amount))
         THEN Panic(d1, {"stats", "key", "values"})
    ELSE
    LET value == Integer(IF increments
                         THEN increment_value(original_value.value.int, amount)
                         ELSE decrement_value(original_value.value.int, amount))
        value_record == counter_record(id, original_value, value, t)
        values1 == MapInsert(d.values, id, value_record)
        res == values1[id]
        updated1 == MapInsert(MapRemove(d.updated_at, original_value.updated_at),
                              res.updated_at, id)
    IN Return([d1 EXCEPT !.stats = inc_writes(@),
                         !.values = values1,
                         !.updated_at = updated1],
              "Some", res)

try_increment(d, key, increment, t, checks) ==
    try_counter(d, key, increment, t, checks, TRUE)

try_decrement(d, key, decrement, t, checks) ==
    try_counter(d, key, decrement, t, checks, FALSE)

\* ------------------------------------------------- try_delete_by_id
\* a try_delete_by_id that leaves the by_key entry behind
delete_index_entries_keep_key(d, rec) ==
    [d EXCEPT !.created_at = MapRemove(@, rec.created_at),
              !.delete_at = IF rec.delete_at.some
                            THEN MapRemove(@, rec.delete_at.v) ELSE @,
              !.updated_at = MapRemove(@, rec.updated_at)]

\* the index entries try_delete_by_id removes for the removed record
delete_index_entries(d, rec) ==
    [d EXCEPT !.created_at = MapRemove(@, rec.created_at),
              !.delete_at = IF rec.delete_at.some
                            THEN MapRemove(@, rec.delete_at.v) ELSE @,
              !.key = MapRemove(@, rec.key),
              !.updated_at = MapRemove(@, rec.updated_at)]

try_delete_by_id(d, id) ==
    IF "stats" \in d.poisoned THEN Panic(d, {})
    ELSE LET d1 == [d EXCEPT !.stats = inc_requests(@)] IN
    IF "values" \in d.poisoned THEN Panic(d1, {"stats"})
    ELSE IF id \notin DOMAIN d.values THEN Return(d1, "None", NoRecord)
    ELSE
    LET res == d.values[id]
        d2 == [d1 EXCEPT !.values = MapRemove(@, id),
                         !.stats = inc_writes(@)]
    IN Return(delete_index_entries(d2, res), "Some", res)

\* ------------------------------------------------ try_delete_by_key
try_delete_by_key(d, key) ==
    IF "key" \in d.poisoned THEN Panic(d, {})
    \* key_index.get(key).unwrap(): only a read guard is held
    ELSE IF key \notin DOMAIN d.key THEN Panic(d, {})
    ELSE try_delete_by_id(d, d.key[key])

\* ------------------------------------------------------- try_select
try_select(d, key) ==
    IF "stats" \in d.poisoned THEN Panic(d, {})
    ELSE LET d1 == [d EXCEPT !.stats = inc_requests(@)] IN
    IF "key" \in d.poisoned THEN Panic(d1, {"stats"})
    ELSE IF key \notin DOMAIN d.key THEN Return(d1, "None", NoRecord)
    ELSE LET id == d.key[key] IN
    IF "values" \in d.poisoned THEN Panic(d1, {"stats"})
    ELSE IF id \notin DOMAIN d.values THEN Return(d1, "None", NoRecord)
    ELSE Return([d1 EXCEPT !.stats = inc_reads(@)], "Some", d.values[id])

\* --------------------------------------------------------------- gc
\* the ids gc collects: index entries whose instant is before now,
\* in the iteration order of the BTreeMap
gc_ids(delete_at_idx, t) ==
    LET ks == SortedSeq({k \in DOMAIN delete_at_idx : t > k})
    IN [i \in 1..Len(ks) |-> delete_at_idx[ks[i]]]

RECURSIVE gc_delete(_, _)
\* for id in ids { self.try_delete_by_id(id)?; }
gc_delete(d, ids) ==
    IF ids = << >> THEN Return(d, "Ok", NoRecord)
    ELSE LET r == try_delete_by_id(d, Head(ids)) IN
         IF r.outcome = "Panic" THEN r
         ELSE gc_delete(r.db, Tail(ids))

gc(d, t) ==
    IF "delete_at" \in d.poisoned THEN Panic(d, {})
    ELSE gc_delete(d, gc_ids(d.delete_at, t))

\* ------------------------------------------------------- select_all
\* the arguments of a select_all call
Query(sort, direction, limit, page) ==
    [sort |-> sort, direction |-> direction, limit |-> limit, page |-> page]
NoQuery == Query("", "", None, None)

\* limit.unwrap_or(10)
DefaultLimit == 10
\* page.unwrap_or(1)
DefaultPage == 1

\* what select_all hands back: the Db after it, the outcome and the Vec
ReturnList(d, outcome, list) ==
    [db |-> d, outcome |-> outcome, rec |-> NoRecord, list |-> list]

Reverse(seq) == [i \in 1..Len(seq) |-> seq[Len(seq) + 1 - i]]

\* the ids of an index in the order of BTreeMap::iter()
index_ids(d, sort) ==
    IF sort = "Key"
    THEN LET ks == SelectSeq(KeyOrder, LAMBDA k : k \in DOMAIN d.key)
         IN [i \in 1..Len(ks) |-> d.key[ks[i]]]
    ELSE LET idx == IF sort = "CreatedAt" THEN d.created_at ELSE d.updated_at
             ks == SortedSeq(DOMAIN idx)
         IN [i \in 1..Len(ks) |-> idx[ks[i]]]

\* iter() for Asc, iter().rev() for Desc
sorted_ids(d, sort, direction) ==
    IF direction = "Asc" THEN index_ids(d, sort) ELSE Reverse(index_ids(d, sort))

\* usize arithmetic of a release build
usize_wrap(x) == x % (2 ^ UsizeBits)

\* let skip = (page - 1) * limit (release build)
skip_of(limit, page) == usize_wrap(usize_wrap(page - 1) * limit)
\* (page - 1) * limit overflows usize
skip_overflows(limit, page) == page - 1 < 0 \/ (page - 1) * limit > UsizeMax

\* ids.into_iter().skip(skip).take(limit)
skip_take(ids, skip, limit) ==
    LET n == IF Len(ids) > skip
             THEN (IF Len(ids) - skip < limit THEN Len(ids) - skip ELSE limit)
             ELSE 0
    IN [i \in 1..n |-> ids[skip + i]]

\* the ids select_all looks up, after pagination (lines 261-272)
page_ids(ids, limit, page) ==
    IF limit.some \/ page.some
    THEN LET l == IF limit.some THEN limit.v ELSE DefaultLimit
             p == IF page.some THEN page.v ELSE DefaultPage
         IN skip_take(ids, skip_of(l, p), l)
    ELSE ids

\* the arithmetic of the pagination overflows usize
page_overflows(limit, page) ==
    /\ limit.some \/ page.some
    /\ skip_overflows(IF limit.some THEN limit.v ELSE DefaultLimit,
                      IF page.some THEN page.v ELSE DefaultPage)

RECURSIVE add_reads(_, _)
\* stats.inc_reads() once per record
add_reads(s, n) == IF n = 0 THEN s ELSE add_reads(inc_reads(s), n - 1)

select_all(d, direction, limit, page, sort, checks) ==
    IF "stats" \in d.poisoned THEN ReturnList(d, "Panic", << >>)
    ELSE LET d1 == [d EXCEPT !.stats = inc_requests(@)]
             poison == [d1 EXCEPT !.poisoned = @ \cup {"stats"}]
         IN
    IF "values" \in d.poisoned THEN ReturnList(poison, "Panic", << >>)
    ELSE IF sort = "Key" /\ "key" \in d.poisoned
         THEN ReturnList(poison, "Panic", << >>)
    ELSE IF checks /\ page_overflows(limit, page)
         THEN ReturnList(poison, "Panic", << >>)
    ELSE
    LET ids == page_ids(sorted_ids(d, sort, direction), limit, page)
        missing == {i \in 1..Len(ids) : ids[i] \notin DOMAIN d.values}
    IN IF missing # {}
       \* values.get(&id).cloned().unwrap()
       THEN LET first == CHOOSE i \in missing : \A j \in missing : i <= j
            IN ReturnList([poison EXCEPT !.stats = add_reads(@, first - 1)],
                          "Panic", << >>)
       ELSE ReturnList([d1 EXCEPT !.stats = add_reads(@, Len(ids))], "Ok",
                       [i \in 1..Len(ids) |-> d.values[ids[i]]])

\* ------------------------------------------------------- get_stats
get_stats_counted(d) ==
    IF "stats" \in d.poisoned THEN Panic(d, {})
    ELSE Return([d EXCEPT !.stats = inc_requests(@)], "Ok", NoRecord)
get_stats(d) ==
    IF "stats" \in d.poisoned THEN Return(d, "Panic", NoRecord)
    ELSE Return(d, "Ok", NoRecord)

\* ================================================================ state
\* Db::new(config)
\* ------------------------------------------------ config, files, tasks
\* Config: data_dir is set or not; the two save triggers
Config(data_dir, save_triggered_after_ms, save_triggered_by_threshold) ==
    [data_dir |-> data_dir,
     save_triggered_after_ms |-> save_triggered_after_ms,
     save_triggered_by_threshold |-> save_triggered_by_threshold]
\* Config::default(): no data directory
ConfigDefault == Config(FALSE, 0, 0)

\* the file names of the data directory
API_KEYS_FILE == "api_keys.sec"
CREATED_AT_INDEX_FILE == "created_at.idx"
DELETE_AT_INDEX_FILE == "delete_at.idx"
DATABASE_FILE == "values.db"
KEY_INDEX_FILE == "key.idx"
UPDATED_AT_INDEX_FILE == "updated_at.idx"
FileNames == {API_KEYS_FILE, CREATED_AT_INDEX_FILE, DELETE_AT_INDEX_FILE,
              DATABASE_FILE, KEY_INDEX_FILE, UPDATED_AT_INDEX_FILE}
\* the order in which save writes the files
SaveOrder == <<API_KEYS_FILE, CREATED_AT_INDEX_FILE, DELETE_AT_INDEX_FILE,
               KEY_INDEX_FILE, UPDATED_AT_INDEX_FILE, DATABASE_FILE>>
\* a file that does not exist (Path::exists() is false), a file holding c
Absent == [exists |-> FALSE, content |-> [size |-> 0, block |-> {}]]
File(c) == [exists |-> TRUE, content |-> c]
\* an empty data directory
NoFiles == [f \in FileNames |-> Absent]

\* Db::new(config): the maps and locks of a fresh store
NewDb == [values |-> EmptyMap, key |-> EmptyMap, created_at |-> EmptyMap,
          delete_at |-> EmptyMap, updated_at |-> EmptyMap,
          stats |-> StatRecordDefault, poisoned |-> {}]
\* what restore leaves: the store and its api keys
Restored(d, keys) == [db |-> d, api_keys |-> keys]
NotRestored == Restored(NewDb, << >>)

\* no gc(), no save() in progress
NoGc == [running |-> FALSE, ids |-> << >>, now |-> 0]
NoSave == [step |-> 0]
\* the threads that call api_key_init
Callers == 1..MaxIds
NoCall == [pc |-> "idle", is_empty |-> FALSE, ret |-> None]

\* the threads that call the store concurrently
Threads == {1, 2}
\* the locks of the Db: stats, values, api_keys and the four indexes
Locks == {"stats", "key", "values", "created_at", "delete_at", "updated_at",
          "api_keys"}
\* an RwLock: the thread that holds its write guard (0: none) and the
\* threads that hold read guards
NoGuard == [writer |-> 0, readers |-> {}]
NoGuards == [l \in Locks |-> NoGuard]
\* the arguments of a call
CallOf(op, key, value, ttl, amount, id, q) ==
    [op |-> op, key |-> key, value |-> value, ttl |-> ttl, amount |-> amount,
     id |-> id, q |-> q]
NoCallMade == CallOf("", "", Integer(0), None, None, 0, NoQuery)
\* what a call handed back: the outcome and the id of the record of a
\* "Some" outcome
Ret(outcome, id) == [outcome |-> outcome, id |-> id]
NoRet == Ret("", 0)
NoReturn == [db |-> NewDb, outcome |-> "", rec |-> NoRecord, list |-> << >>]
\* a thread that has made no call
IdleThread == [pc |-> "idle", call |-> NoCallMade, ids |-> << >>,
               plan |-> << >>, r |-> NoReturn, ret |-> NoRet]

\* -------------------------------------------------------- snapshot codec
Digits == <<"0", "1", "2", "3", "4", "5", "6", "7", "8", "9">>

RECURSIVE u64_to_string(_)
\* the decimal text of n >= 0, one character per element
u64_to_string(n) ==
    IF n < 10 THEN <<Digits[n + 1]>>
    ELSE u64_to_string(n \div 10) \o <<Digits[(n % 10) + 1]>>

\* serde_json writes an i64 map key as its decimal text
i64_to_string(n) ==
    IF n < 0 THEN <<"-">> \o u64_to_string(0 - n) ELSE u64_to_string(n)

digit_value(c) == (CHOOSE i \in 1..10 : Digits[i] = c) - 1

RECURSIVE string_to_u64(_)
string_to_u64(s) ==
    IF s = << >> THEN 0
    ELSE (string_to_u64(SubSeq(s, 1, Len(s) - 1)) * 10)
             + digit_value(s[Len(s)])

\* serde_json parses the text of a map key back to an i64
string_to_i64(s) ==
    IF Head(s) = "-" THEN 0 - string_to_u64(Tail(s)) ELSE string_to_u64(s)

\* Uuid as text and back
uuid_to_string(id) == u64_to_string(id)
string_to_uuid(s) == string_to_u64(s)

\* a JSON object: its members as <<name, value>> pairs
\* serde_json::to_vec(&BTreeMap<i64, Uuid>)
index_to_json(idx) ==
    {<<i64_to_string(k), uuid_to_string(idx[k])>> : k \in DOMAIN idx}
\* serde_json::from_str::<BTreeMap<i64, Uuid>>
index_from_json(j) ==
    [k \in {string_to_i64(m[1]) : m \in j} |->
        string_to_uuid((CHOOSE m \in j : string_to_i64(m[1]) = k)[2])]

\* serde_json::to_vec(&BTreeMap<String, Uuid>)
key_index_to_json(idx) == {<<k, uuid_to_string(idx[k])>> : k \in DOMAIN idx}
key_index_from_json_first(j) ==
    [k \in {m[1] : m \in j} \cap {KeyOrder[1]} |->
        string_to_uuid((CHOOSE m \in j : m[1] = k)[2])]
key_index_from_json(j) ==
    [k \in {m[1] : m \in j} |->
        string_to_uuid((CHOOSE m \in j : m[1] = k)[2])]

\* ValueRecord as JSON: the id as text, the instants as nanoseconds
record_to_json(rec) == [rec EXCEPT !.id = uuid_to_string(@)]
record_from_json(j) == [j EXCEPT !.id = string_to_uuid(@)]

\* serde_json::to_vec(&HashMap<Uuid, ValueRecord>)
values_to_json(m) ==
    {<<uuid_to_string(id), record_to_json(m[id])>> : id \in DOMAIN m}
values_from_json(j) ==
    [id \in {string_to_uuid(m[1]) : m \in j} |->
        record_from_json((CHOOSE m \in j : string_to_uuid(m[1]) = id)[2])]

\* serde_json::to_vec(&Vec<Uuid>): <<position, text>> pairs
api_keys_to_json(keys) ==
    {<<i, uuid_to_string(keys[i])>> : i \in 1..Len(keys)}
api_keys_from_json(j) ==
    [i \in 1..Cardinality(j) |-> string_to_uuid((CHOOSE m \in j : m[1] = i)[2])]

\* compress_prepend_size: the uncompressed size, then the block
compress_prepend_size(serialized) ==
    [size |-> Cardinality(serialized), block |-> serialized]
\* decompress_size_prepended (the files are written by save only, so the
\* size always matches the block)
decompress_size_prepended(compressed) == compressed.block

\* ------------------------------------------------------------------ save
\* StatRecord::can_save(threshold_writes, min_interval_ms); the clock unit
\* of the model is one second
can_save(s, threshold_writes, min_interval_ms, t) ==
    /\ s.writes - s.saved_writes >= threshold_writes
    /\ (t - s.last_saved_at) * 1000 >= min_interval_ms

\* StatRecord::update_saved_writes()
update_saved_writes(s, t) ==
    [s EXCEPT !.saved_writes = s.writes, !.last_saved_at = t]

\* the serialized form of the structure that file name holds
serialized(name, d, keys) ==
    IF name = API_KEYS_FILE THEN api_keys_to_json(keys)
    ELSE IF name = CREATED_AT_INDEX_FILE THEN index_to_json(d.created_at)
    ELSE IF name = DELETE_AT_INDEX_FILE THEN index_to_json(d.delete_at)
    ELSE IF name = KEY_INDEX_FILE THEN key_index_to_json(d.key)
    ELSE IF name = UPDATED_AT_INDEX_FILE THEN index_to_json(d.updated_at)
    ELSE values_to_json(d.values)

\* fs::write(path, compress_prepend_size(&serde_json::to_vec(..)))
write_file(f, name, d, keys) ==
    [f EXCEPT ![name] = File(compress_prepend_size(serialized(name, d, keys)))]

RECURSIVE write_files(_, _, _, _)
\* the first n writes of save, in SaveOrder
write_files(f, n, d, keys) ==
    IF n = 0 THEN f
    ELSE write_file(write_files(f, n - 1, d, keys), SaveOrder[n], d, keys)

\* what save hands back: the Db and the data directory after it, and
\* "Written" (Ok after the six writes), "Skipped" (Ok, nothing done) or
\* "Panic"
Saved(d, f, outcome) == [db |-> d, files |-> f, outcome |-> outcome]

\* save reads the key index after the created_at and delete_at files are
\* written, and values after five files are written
save_poisoned_at(d) ==
    IF "key" \in d.poisoned THEN 3
    ELSE IF "values" \in d.poisoned THEN 5
    ELSE 6

save(d, cfg, keys, f, t) ==
    IF ~cfg.data_dir THEN Saved(d, f, "Skipped")
    ELSE IF "stats" \in d.poisoned THEN Saved(d, f, "Panic")
    ELSE IF ~can_save(d.stats, cfg.save_triggered_after_ms,
                      cfg.save_triggered_by_threshold, t)
         THEN Saved(d, f, "Skipped")
    ELSE IF save_poisoned_at(d) < 6
         THEN Saved([d EXCEPT !.poisoned = @ \cup {"stats"}],
                    write_files(f, save_poisoned_at(d), d, keys), "Panic")
    ELSE Saved([d EXCEPT !.stats = update_saved_writes(@, t)],
               write_files(f, 6, d, keys), "Written")

\* the fs::write calls a save() of store d makes, when none of them fails
writes_reached(d, cfg, t) ==
    IF ~cfg.data_dir \/ "stats" \in d.poisoned THEN 0
    ELSE IF ~can_save(d.stats, cfg.save_triggered_after_ms,
                      cfg.save_triggered_by_threshold, t) THEN 0
    ELSE save_poisoned_at(d)

save_io_counted(d, cfg, keys, f, t, n) ==
    IF n <= writes_reached(d, cfg, t)
    THEN Saved([d EXCEPT !.stats = update_saved_writes(@, t)],
               write_files(f, n - 1, d, keys), "Io")
    ELSE save(d, cfg, keys, f, t)
\* save when the n-th fs::write fails: `?` returns the error at once, the
\* files written before it stay, update_saved_writes is not reached
save_io(d, cfg, keys, f, t, n) ==
    IF n <= writes_reached(d, cfg, t)
    THEN Saved(d, write_files(f, n - 1, d, keys), "Io")
    ELSE save(d, cfg, keys, f, t)

\* --------------------------------------------------------------- restore
\* read, decompress, deserialize
read_file(f, name) == decompress_size_prepended(f[name].content)

\* restore on the store d with api keys `keys`: every file that exists is
\* installed into its structure
restore(d, keys, cfg, f) ==
    IF ~cfg.data_dir THEN Restored(d, keys)
    ELSE Restored(
        [d EXCEPT
            !.created_at = IF f[CREATED_AT_INDEX_FILE].exists
                           THEN index_from_json(read_file(f, CREATED_AT_INDEX_FILE))
                           ELSE @,
            !.delete_at = IF f[DELETE_AT_INDEX_FILE].exists
                          THEN index_from_json(read_file(f, DELETE_AT_INDEX_FILE))
                          ELSE @,
            !.key = IF f[KEY_INDEX_FILE].exists
                    THEN key_index_from_json(read_file(f, KEY_INDEX_FILE))
                    ELSE @,
            !.updated_at = IF f[UPDATED_AT_INDEX_FILE].exists
                           THEN index_from_json(read_file(f, UPDATED_AT_INDEX_FILE))
                           ELSE @,
            !.values = IF f[DATABASE_FILE].exists
                       THEN values_from_json(read_file(f, DATABASE_FILE))
                       ELSE @],
        IF f[API_KEYS_FILE].exists
        THEN api_keys_from_json(read_file(f, API_KEYS_FILE))
        ELSE keys)

Init ==
    /\ values = EmptyMap
    /\ key_index = EmptyMap
    /\ created_at_index = EmptyMap
    /\ delete_at_index = EmptyMap
    /\ updated_at_index = EmptyMap
    /\ stats = StatRecordDefault
    /\ poisoned = {}
    /\ now = 0
    /\ minted = 0
    /\ overflow_checks \in BOOLEAN
    /\ result = [op |-> "new", key |-> "", arg |-> None, outcome |-> "Ok",
                 rec |-> NoRecord, q |-> NoQuery, list |-> << >>,
                 restored |-> NotRestored]
    /\ config = ConfigDefault
    /\ api_keys = << >>
    /\ files = NoFiles
    /\ gc_task = NoGc
    /\ save_task = NoSave
    /\ callers = [c \in Callers |-> NoCall]
    /\ threads = [t \in Threads |-> IdleThread]
    /\ guards = NoGuards

\* the step made by one complete call: the Db it leaves and what it returned
Call(op, key, arg, r) ==
    /\ values' = r.db.values
    /\ key_index' = r.db.key
    /\ created_at_index' = r.db.created_at
    /\ delete_at_index' = r.db.delete_at
    /\ updated_at_index' = r.db.updated_at
    /\ stats' = r.db.stats
    /\ poisoned' = r.db.poisoned
    /\ result' = [op |-> op, key |-> key, arg |-> arg, outcome |-> r.outcome,
                  rec |-> r.rec, q |-> NoQuery, list |-> << >>,
                 restored |-> NotRestored]
    /\ UNCHANGED <<now, overflow_checks, others>>

\* Utc::now() advances between calls (and may not: two calls can read
\* the same instant)
Tick ==
    /\ now < MaxTime
    /\ now' = now + 1
    /\ result' = [op |-> "tick", key |-> "", arg |-> None, outcome |-> "Ok",
                  rec |-> NoRecord, q |-> NoQuery, list |-> << >>,
                 restored |-> NotRestored]
    /\ UNCHANGED <<values, key_index, created_at_index, delete_at_index,
                   updated_at_index, stats, poisoned, minted, overflow_checks,
                   others>>

TryInsert ==
    /\ stats.requests < MaxRequests
    /\ minted < MaxIds
    /\ \E key \in Keys, value \in PostValues, ttl \in Ttls :
         LET r == try_insert(Db, key, value, ttl, minted + 1, now) IN
         /\ Call("try_insert", key, ttl, r)
         /\ minted' = IF r.outcome = "Panic" THEN minted ELSE minted + 1

TryUpsert ==
    /\ stats.requests < MaxRequests
    /\ \E key \in Keys, value \in PostValues, ttl \in Ttls :
         /\ Call("try_upsert", key, ttl, try_upsert(Db, key, value, ttl, now))
         /\ UNCHANGED minted

TryIncrement ==
    /\ stats.requests < MaxRequests
    /\ \E key \in Keys, increment \in Amounts :
         /\ Call("try_increment", key, increment,
                 try_increment(Db, key, increment, now, overflow_checks))
         /\ UNCHANGED minted

TryDecrement ==
    /\ stats.requests < MaxRequests
    /\ \E key \in Keys, decrement \in Amounts :
         /\ Call("try_decrement", key, decrement,
                 try_decrement(Db, key, decrement, now, overflow_checks))
         /\ UNCHANGED minted

TryDeleteById ==
    /\ stats.requests < MaxRequests
    /\ \E id \in Ids :
         /\ Call("try_delete_by_id", "", Some(id), try_delete_by_id(Db, id))
         /\ UNCHANGED minted

TryDeleteByKey ==
    /\ stats.requests < MaxRequests
    /\ \E key \in Keys :
         /\ Call("try_delete_by_key", key, None, try_delete_by_key(Db, key))
         /\ UNCHANGED minted

TrySelect ==
    /\ stats.requests < MaxRequests
    /\ \E key \in Keys :
         /\ Call("try_select", key, None, try_select(Db, key))
         /\ UNCHANGED minted

Gc ==
    /\ Call("gc", "", None, gc(Db, now))
    /\ UNCHANGED minted

SelectAll ==
    /\ stats.requests < MaxRequests
    /\ \E a \in SelectAllArgs :
         LET sort == a[1]
             direction == a[2]
             limit == a[3]
             page == a[4]
             r == select_all(Db, direction, limit, page, sort, overflow_checks)
         IN /\ values' = r.db.values
            /\ key_index' = r.db.key
            /\ created_at_index' = r.db.created_at
            /\ delete_at_index' = r.db.delete_at
            /\ updated_at_index' = r.db.updated_at
            /\ stats' = r.db.stats
            /\ poisoned' = r.db.poisoned
            /\ result' = [op |-> "select_all", key |-> "", arg |-> None,
                          outcome |-> r.outcome, rec |-> NoRecord,
                          q |-> Query(sort, direction, limit, page),
                          list |-> r.list,
                          restored |-> NotRestored]
            /\ UNCHANGED <<now, minted, overflow_checks, others>>

GetStats ==
    /\ Call("get_stats", "", None, get_stats(Db))
    /\ UNCHANGED minted

Next ==
    \/ Tick
    \/ TryInsert
    \/ TryUpsert
    \/ TryIncrement
    \/ TryDecrement
    \/ TryDeleteById
    \/ TryDeleteByKey
    \/ TrySelect
    \/ Gc

Spec == Init /\ [][Next]_vars

\* the calls of Spec together with the read-only calls select_all and
\* get_stats
NextRead ==
    \/ Next
    \/ SelectAll
    \/ GetStats

SpecRead == Init /\ [][NextRead]_vars

\* ------------------------------------------------------ save and restore
\* the configurations of the stores that save: no data directory; a data
\* directory with triggers (after_ms, threshold) = (0, 1) and (1000, 2)
Configs == {ConfigDefault, Config(TRUE, 0, 1), Config(TRUE, 1000, 2)}

\* a fresh store with a configuration of Cs, built with a profile of Builds
InitOf(Cs, Builds) ==
    /\ values = EmptyMap
    /\ key_index = EmptyMap
    /\ created_at_index = EmptyMap
    /\ delete_at_index = EmptyMap
    /\ updated_at_index = EmptyMap
    /\ stats = StatRecordDefault
    /\ poisoned = {}
    /\ now = 0
    /\ minted = 0
    /\ overflow_checks \in Builds
    /\ result = [op |-> "new", key |-> "", arg |-> None, outcome |-> "Ok",
                 rec |-> NoRecord, q |-> NoQuery, list |-> << >>,
                 restored |-> NotRestored]
    /\ config \in Cs
    /\ api_keys = << >>
    /\ files = NoFiles
    /\ gc_task = NoGc
    /\ save_task = NoSave
    /\ callers = [c \in Callers |-> NoCall]
    /\ threads = [t \in Threads |-> IdleThread]
    /\ guards = NoGuards

\* none of the calls of NextSave does integer arithmetic, so one build
\* profile stands for both
InitSave == InitOf(Configs, {FALSE})

\* one complete save() call
Save ==
    LET r == save(Db, config, api_keys, files, now)
    IN /\ stats' = r.db.stats
       /\ poisoned' = r.db.poisoned
       /\ files' = r.files
       /\ result' = [op |-> "save", key |-> "", arg |-> None,
                     outcome |-> r.outcome, rec |-> NoRecord, q |-> NoQuery,
                     list |-> << >>, restored |-> NotRestored]
       /\ UNCHANGED <<values, key_index, created_at_index, delete_at_index,
                      updated_at_index, now, minted, overflow_checks, config,
                      api_keys, gc_task, save_task, callers, threads, guards>>

\* a second process opens the data directory: Db::new(config), restore()
Restore ==
    /\ result' = [op |-> "restore", key |-> "", arg |-> None,
                  outcome |-> "Ok", rec |-> NoRecord, q |-> NoQuery,
                  list |-> << >>,
                  restored |-> restore(NewDb, << >>, config, files)]
    /\ UNCHANGED <<values, key_index, created_at_index, delete_at_index,
                   updated_at_index, stats, poisoned, now, minted,
                   overflow_checks, others>>

\* the calls that build and change a store, with save and restore
NextSave ==
    \/ Tick
    \/ TryInsert
    \/ TryUpsert
    \/ TryDeleteByKey
    \/ Save
    \/ Restore

SpecSave == InitSave /\ [][NextSave]_vars

\* the same calls on a store that saves after two writes and two ms
InitSnapshot == InitOf({Config(TRUE, 2, 2)}, {FALSE})
SpecSnapshot == InitSnapshot /\ [][NextSave]_vars

\* ------------------------------------------- gc and save, step by step
\* self.stats.write() returns only when no other thread holds the guard;
\* a save() holds it from its first line to its return
stats_free_unguarded(task) == TRUE
stats_free(task) == task.step = 0

\* a call that starts with self.stats.write(), made by another thread
Locked(call) == stats_free(save_task) /\ call

\* gc(), first half: the scan of by_delete_at under its read guard
GcScan ==
    /\ ~gc_task.running
    /\ IF "delete_at" \in poisoned
       THEN /\ gc_task' = gc_task
            /\ result' = [op |-> "gc", key |-> "", arg |-> None,
                          outcome |-> "Panic", rec |-> NoRecord,
                          q |-> NoQuery, list |-> << >>,
                          restored |-> NotRestored]
       ELSE /\ gc_task' = [running |-> TRUE,
                           ids |-> gc_ids(delete_at_index, now), now |-> now]
            /\ result' = [op |-> "gc_scan", key |-> "", arg |-> None,
                          outcome |-> "Ok", rec |-> NoRecord, q |-> NoQuery,
                          list |-> << >>, restored |-> NotRestored]
    /\ UNCHANGED <<values, key_index, created_at_index, delete_at_index,
                   updated_at_index, stats, poisoned, now, minted,
                   overflow_checks, config, api_keys, files, save_task,
                   callers, threads, guards>>

\* gc(), second half: one self.try_delete_by_id(id)? of the loop, or the
\* return after the last one
GcStep ==
    /\ gc_task.running
    /\ IF gc_task.ids = << >>
       THEN /\ gc_task' = NoGc
            /\ result' = [op |-> "gc", key |-> "", arg |-> None,
                          outcome |-> "Ok", rec |-> NoRecord, q |-> NoQuery,
                          list |-> << >>, restored |-> NotRestored]
            /\ UNCHANGED <<values, key_index, created_at_index,
                           delete_at_index, updated_at_index, stats,
                           poisoned>>
       ELSE LET r == try_delete_by_id(Db, Head(gc_task.ids))
            IN /\ stats_free(save_task)
               /\ values' = r.db.values
               /\ key_index' = r.db.key
               /\ created_at_index' = r.db.created_at
               /\ delete_at_index' = r.db.delete_at
               /\ updated_at_index' = r.db.updated_at
               /\ stats' = r.db.stats
               /\ poisoned' = r.db.poisoned
               /\ gc_task' = IF r.outcome = "Panic" THEN NoGc
                             ELSE [gc_task EXCEPT !.ids = Tail(@)]
               /\ result' = [op |-> "gc_delete", key |-> "", arg |-> None,
                             outcome |-> r.outcome, rec |-> r.rec,
                             q |-> NoQuery, list |-> << >>,
                             restored |-> NotRestored]
    /\ UNCHANGED <<now, minted, overflow_checks, config, api_keys, files,
                   save_task, callers, threads, guards>>

\* save(), up to the can_save test
SaveBegin ==
    /\ save_task.step = 0
    /\ LET due == /\ config.data_dir
                  /\ "stats" \notin poisoned
                  /\ can_save(stats, config.save_triggered_after_ms,
                              config.save_triggered_by_threshold, now)
       IN /\ save_task' = IF due THEN [step |-> 1] ELSE NoSave
          /\ result' = [op |-> IF due THEN "save_begin" ELSE "save",
                        key |-> "", arg |-> None,
                        outcome |-> IF due THEN "Ok"
                                    ELSE IF config.data_dir
                                            /\ "stats" \in poisoned
                                         THEN "Panic" ELSE "Skipped",
                        rec |-> NoRecord, q |-> NoQuery, list |-> << >>,
                        restored |-> NotRestored]
    /\ UNCHANGED <<values, key_index, created_at_index, delete_at_index,
                   updated_at_index, stats, poisoned, now, minted,
                   overflow_checks, config, api_keys, files, gc_task,
                   callers, threads, guards>>

\* save(), one fs::write
SaveWrite ==
    /\ save_task.step \in 1..Len(SaveOrder)
    /\ files' = write_file(files, SaveOrder[save_task.step], Db, api_keys)
    /\ save_task' = [step |-> save_task.step + 1]
    /\ result' = [op |-> "save_write", key |-> SaveOrder[save_task.step],
                  arg |-> None, outcome |-> "Ok", rec |-> NoRecord,
                  q |-> NoQuery, list |-> << >>, restored |-> NotRestored]
    /\ UNCHANGED <<values, key_index, created_at_index, delete_at_index,
                   updated_at_index, stats, poisoned, now, minted,
                   overflow_checks, config, api_keys, gc_task, callers, threads, guards>>

\* save(), stats.update_saved_writes() and the return
SaveEnd ==
    /\ save_task.step = Len(SaveOrder) + 1
    /\ stats' = update_saved_writes(stats, now)
    /\ save_task' = NoSave
    /\ result' = [op |-> "save", key |-> "", arg |-> None,
                  outcome |-> "Written", rec |-> NoRecord, q |-> NoQuery,
                  list |-> << >>, restored |-> NotRestored]
    /\ UNCHANGED <<values, key_index, created_at_index, delete_at_index,
                   updated_at_index, poisoned, now, minted, overflow_checks,
                   config, api_keys, files, gc_task, callers, threads, guards>>

\* the calls of the mutators made while gc and save run: locking does not
\* depend on the value written or on the amount, so one value and the
\* default amount stand for all
ConcValues == {Integer(0)}
ConcAmounts == {None}

ConcInsert ==
    /\ stats.requests < MaxRequests
    /\ minted < MaxIds
    /\ \E key \in Keys, value \in ConcValues, ttl \in Ttls :
         LET r == try_insert(Db, key, value, ttl, minted + 1, now) IN
         /\ Call("try_insert", key, ttl, r)
         /\ minted' = IF r.outcome = "Panic" THEN minted ELSE minted + 1

ConcUpsert ==
    /\ stats.requests < MaxRequests
    /\ \E key \in Keys, value \in ConcValues, ttl \in Ttls :
         /\ Call("try_upsert", key, ttl, try_upsert(Db, key, value, ttl, now))
         /\ UNCHANGED minted

ConcIncrement ==
    /\ stats.requests < MaxRequests
    /\ \E key \in Keys, increment \in ConcAmounts :
         /\ Call("try_increment", key, increment,
                 try_increment(Db, key, increment, now, overflow_checks))
         /\ UNCHANGED minted

ConcDecrement ==
    /\ stats.requests < MaxRequests
    /\ \E key \in Keys, decrement \in ConcAmounts :
         /\ Call("try_decrement", key, decrement,
                 try_decrement(Db, key, decrement, now, overflow_checks))
         /\ UNCHANGED minted

\* the threads: the callers of the mutators, the gc worker and the saver
NextConc ==
    \/ Tick
    \/ Locked(ConcInsert)
    \/ Locked(ConcUpsert)
    \/ Locked(ConcIncrement)
    \/ Locked(ConcDecrement)
    \/ Locked(TryDeleteById)
    \/ GcScan
    \/ GcStep
    \/ SaveBegin
    \/ SaveWrite
    \/ SaveEnd

\* a fresh store that saves after two writes and two ms
InitConc == InitOf({Config(TRUE, 2, 2)}, BOOLEAN)

SpecConc == InitConc /\ [][NextConc]_vars

\* -------------------------------------------------- save with Io errors
\* a save() call one of whose fs::write calls fails
SaveIo ==
    \E n \in 1..Len(SaveOrder) :
        LET r == save_io(Db, config, api_keys, files, now, n)
        IN /\ r.outcome = "Io"
           /\ stats' = r.db.stats
           /\ poisoned' = r.db.poisoned
           /\ files' = r.files
           /\ result' = [op |-> "save", key |-> "", arg |-> None,
                         outcome |-> r.outcome, rec |-> NoRecord,
                         q |-> NoQuery, list |-> << >>,
                         restored |-> NotRestored]
           /\ UNCHANGED <<values, key_index, created_at_index,
                          delete_at_index, updated_at_index, now, minted,
                          overflow_checks, config, api_keys, gc_task,
                          save_task, callers, threads, guards>>

\* the calls that write, with the saves that succeed and those that fail
NextIo ==
    \/ Tick
    \/ ConcInsert
    \/ ConcUpsert
    \/ Save
    \/ SaveIo

SpecIo == InitSnapshot /\ [][NextIo]_vars

\* ---------------------------------------------------------------- api keys
\* the identifiers Uuid::new_v4() may return
ApiKeyIds == 1..(MaxIds + 1)

\* api_keys.contains(&api_key)
api_key_exists(keys, api_key) == \E i \in 1..Len(keys) : keys[i] = api_key

\* api_keys.is_empty()
is_empty(keys) == Len(keys) = 0

\* api_keys.append(&mut vec![api_key])
append(keys, api_key) == keys \o <<api_key>>

api_keys_free_unguarded(cs) == TRUE
\* no thread holds the write guard of api_keys
api_keys_free(cs) == \A c \in Callers : cs[c].pc \notin {"locked", "checked"}

\* a thread calls api_key_init and waits at api_keys.write()
ApiKeyInitCall(c) ==
    /\ callers[c].pc = "idle"
    /\ callers' = [callers EXCEPT ![c].pc = "waiting"]
    /\ UNCHANGED <<values, key_index, created_at_index, delete_at_index,
                   updated_at_index, stats, poisoned, now, minted,
                   overflow_checks, result, config, api_keys, files, gc_task,
                   save_task, threads, guards>>

\* let mut api_keys = self.api_keys.write().unwrap()
ApiKeyInitLock(c) ==
    /\ callers[c].pc = "waiting"
    /\ api_keys_free(callers)
    /\ callers' = [callers EXCEPT ![c].pc = "locked"]
    /\ UNCHANGED <<values, key_index, created_at_index, delete_at_index,
                   updated_at_index, stats, poisoned, now, minted,
                   overflow_checks, result, config, api_keys, files, gc_task,
                   save_task, threads, guards>>

\* if api_keys.is_empty()
ApiKeyInitCheck(c) ==
    /\ callers[c].pc = "locked"
    /\ callers' = [callers EXCEPT ![c].pc = "checked",
                                  ![c].is_empty = is_empty(api_keys)]
    /\ UNCHANGED <<values, key_index, created_at_index, delete_at_index,
                   updated_at_index, stats, poisoned, now, minted,
                   overflow_checks, result, config, api_keys, files, gc_task,
                   save_task, threads, guards>>

\* the branch taken, up to the return, which drops the guard
ApiKeyInitReturn(c) ==
    /\ callers[c].pc = "checked"
    /\ \E api_key \in ApiKeyIds :
           LET ret == IF callers[c].is_empty THEN Some(api_key) ELSE None
           IN /\ api_keys' = IF callers[c].is_empty
                             THEN append(api_keys, api_key)
                             ELSE api_keys
              /\ callers' = [callers EXCEPT ![c].pc = "done", ![c].ret = ret]
              /\ result' = [op |-> "api_key_init", key |-> "", arg |-> ret,
                            outcome |-> IF ret.some THEN "Some" ELSE "None",
                            rec |-> NoRecord, q |-> NoQuery, list |-> << >>,
                            restored |-> NotRestored]
    /\ UNCHANGED <<values, key_index, created_at_index, delete_at_index,
                   updated_at_index, stats, poisoned, now, minted,
                   overflow_checks, config, files, gc_task, save_task, threads, guards>>

\* api_key_exists(api_key), under the read guard of api_keys
ApiKeyExists ==
    /\ api_keys_free(callers)
    /\ \E api_key \in ApiKeyIds :
           result' = [op |-> "api_key_exists", key |-> "",
                      arg |-> Some(api_key),
                      outcome |-> IF api_key_exists(api_keys, api_key)
                                  THEN "True" ELSE "False",
                      rec |-> NoRecord, q |-> NoQuery, list |-> << >>,
                      restored |-> NotRestored]
    /\ UNCHANGED <<values, key_index, created_at_index, delete_at_index,
                   updated_at_index, stats, poisoned, now, minted,
                   overflow_checks, config, api_keys, files, gc_task,
                   save_task, callers, threads, guards>>

\* the threads of the server that start up against one fresh store
NextKeys ==
    \/ \E c \in Callers : ApiKeyInitCall(c)
    \/ \E c \in Callers : ApiKeyInitLock(c)
    \/ \E c \in Callers : ApiKeyInitCheck(c)
    \/ \E c \in Callers : ApiKeyInitReturn(c)
    \/ ApiKeyExists

InitKeys == InitOf({ConfigDefault}, {FALSE})

SpecKeys == InitKeys /\ [][NextKeys]_vars

\* ------------------------------------------- threads, guard by guard
can_write_unguarded(g, l) == TRUE
\* RwLock::write() returns when no thread holds a guard of the lock
can_write(g, l) == g[l].writer = 0 /\ g[l].readers = {}
\* RwLock::read() returns when no thread holds the write guard of the lock
can_read(g, l) == g[l].writer = 0

\* the locks of which thread t holds a guard, and a write guard
held(g, t) == {l \in Locks : g[l].writer = t \/ t \in g[l].readers}
write_held(g, t) == {l \in Locks : g[l].writer = t}

\* thread t gets the guard of lock l in mode m
take(g, l, m, t) ==
    [g EXCEPT ![l] = IF m = "write" THEN [@ EXCEPT !.writer = t]
                     ELSE [@ EXCEPT !.readers = @ \cup {t}]]
\* thread t drops its guard of lock l
drop(g, l, t) ==
    [g EXCEPT ![l] = [writer |-> IF @.writer = t THEN 0 ELSE @.writer,
                      readers |-> @.readers \ {t}]]
\* thread t leaves a method, by return or by unwinding: its guards drop
drop_all(g, t) ==
    [l \in Locks |-> [writer |-> IF g[l].writer = t THEN 0 ELSE g[l].writer,
                      readers |-> g[l].readers \ {t}]]

\* what a thread does next: take a guard, drop one, look the ids of
\* select_all up, return, panic
Acq(l, m) == [e |-> "acquire", lock |-> l, mode |-> m]
Rel(l) == [e |-> "release", lock |-> l, mode |-> ""]
Lookup == [e |-> "lookup", lock |-> "", mode |-> ""]
End == [e |-> "return", lock |-> "", mode |-> ""]
Unwind == [e |-> "panic", lock |-> "", mode |-> ""]

\* the methods whose first line is self.stats.write()
StatsFirst == {"try_insert", "try_upsert", "try_increment", "try_decrement",
               "try_delete_by_id", "try_select", "select_all", "save"}

\* the first guard a call takes
first_plan(call) ==
    IF call.op \in StatsFirst THEN <<Acq("stats", "write")>>
    ELSE IF call.op = "try_delete_by_key" THEN <<Acq("key", "read")>>
    ELSE IF call.op = "gc" THEN <<Acq("delete_at", "read")>>
    ELSE <<Acq("stats", "read")>>

\* the index select_all reads for a sort
index_lock(sort) ==
    IF sort = "Key" THEN "key"
    ELSE IF sort = "CreatedAt" THEN "created_at"
    ELSE "updated_at"

\* the file save writes under the read guard of lock l
file_of(l) ==
    IF l = "api_keys" THEN API_KEYS_FILE
    ELSE IF l = "created_at" THEN CREATED_AT_INDEX_FILE
    ELSE IF l = "delete_at" THEN DELETE_AT_INDEX_FILE
    ELSE IF l = "key" THEN KEY_INDEX_FILE
    ELSE IF l = "updated_at" THEN UPDATED_AT_INDEX_FILE
    ELSE DATABASE_FILE

\* try_delete_by_id after self.stats.write(), r being what it returns
delete_plan(r) ==
    <<Acq("values", "write")>>
        \o (IF r.outcome = "Some"
            THEN <<Acq("created_at", "write")>>
                     \o (IF r.rec.delete_at.some
                         THEN <<Acq("delete_at", "write"), Rel("delete_at")>>
                         ELSE << >>)
                     \o <<Acq("key", "write"), Acq("updated_at", "write"),
                          End>>
            ELSE <<End>>)

\* what a method does after self.stats.write(), on store d, r being what it
\* returns there
after_stats(call, r, d) ==
    CASE call.op = "try_insert" ->
             <<Acq("values", "write"), Acq("created_at", "write")>>
                 \o (IF r.rec.delete_at.some
                     THEN <<Acq("delete_at", "write"), Rel("delete_at")>>
                     ELSE << >>)
                 \o <<Acq("key", "write"), Acq("updated_at", "write"), End>>
      [] call.op = "try_upsert" ->
             <<Acq("key", "write")>>
                 \o (IF call.key \notin DOMAIN d.key THEN <<Unwind>>
                     ELSE <<Acq("values", "write")>>
                              \o (IF r.outcome = "Some"
                                  THEN <<Acq("delete_at", "write"),
                                         Acq("updated_at", "write"), End>>
                                  ELSE <<End>>))
      [] call.op \in {"try_increment", "try_decrement"} ->
             <<Acq("key", "write")>>
                 \o (IF call.key \notin DOMAIN d.key THEN <<Unwind>>
                     ELSE <<Acq("values", "write")>>
                              \o (IF r.outcome = "Panic" THEN <<Unwind>>
                                  ELSE IF r.outcome = "Some"
                                  THEN <<Acq("updated_at", "write"), End>>
                                  ELSE <<End>>))
      [] call.op \in {"try_delete_by_id", "try_delete_by_key", "gc"} ->
             delete_plan(r)
      [] call.op = "try_select" ->
             <<Acq("key", "read")>>
                 \o (IF call.key \notin DOMAIN d.key THEN <<End>>
                     ELSE <<Acq("values", "read"), End>>)
      [] call.op = "select_all" ->
             <<Acq("values", "read"), Acq(index_lock(call.q.sort), "read"),
               Lookup>>
      [] call.op = "save" ->
             IF r.outcome = "Written"
             THEN <<Acq("api_keys", "read"), Rel("api_keys"),
                    Acq("created_at", "read"), Acq("delete_at", "read"),
                    Acq("key", "read"), Acq("updated_at", "read"),
                    Acq("values", "read"), End>>
             ELSE <<End>>

\* what the method returns on store d at instant t, id being the id
\* try_delete_by_id is called with
apply(call, id, d, cfg, keys, f, t, checks) ==
    LET listed(r) == [db |-> r.db, outcome |-> r.outcome, rec |-> r.rec,
                      list |-> << >>]
    IN CASE call.op = "try_insert" ->
                listed(try_insert(d, call.key, call.value, call.ttl,
                                  call.id, t))
         [] call.op = "try_upsert" ->
                listed(try_upsert(d, call.key, call.value, call.ttl, t))
         [] call.op = "try_increment" ->
                listed(try_increment(d, call.key, call.amount, t, checks))
         [] call.op = "try_decrement" ->
                listed(try_decrement(d, call.key, call.amount, t, checks))
         [] call.op \in {"try_delete_by_id", "try_delete_by_key", "gc"} ->
                listed(try_delete_by_id(d, id))
         [] call.op = "try_select" -> listed(try_select(d, call.key))
         [] call.op = "select_all" ->
                select_all(d, call.q.direction, call.q.limit, call.q.page,
                           call.q.sort, checks)
         [] call.op = "save" ->
                LET s == save(d, cfg, keys, f, t)
                IN [db |-> s.db, outcome |-> s.outcome, rec |-> NoRecord,
                    list |-> << >>]

\* a thread whose call is over: the method and the key of the call, and
\* what it handed back
Finished(th, pc, ret) ==
    [IdleThread EXCEPT !.pc = pc,
                       !.call = [NoCallMade EXCEPT !.op = th.call.op,
                                                   !.key = th.call.key],
                       !.ret = ret]

\* the thread after it took the guard of event e; r is what its method
\* returns, computed when it takes the stats write guard
after_acquire(th, e, r, d, t) ==
    IF e.lock = "stats" /\ e.mode = "write"
    THEN [th EXCEPT !.r = r, !.plan = after_stats(th.call, r, d),
                    !.ids = IF th.call.op \in {"try_delete_by_key", "gc"}
                            THEN Tail(@) ELSE @]
    ELSE IF th.call.op = "try_delete_by_key" /\ e.mode = "read"
    \* let id = *key_index.get(key).unwrap(); drop(key_index)
    THEN IF th.call.key \in DOMAIN d.key
         THEN [th EXCEPT !.ids = <<d.key[th.call.key]>>,
                         !.plan = <<Rel("key"), Acq("stats", "write")>>]
         ELSE [th EXCEPT !.plan = <<Unwind>>]
    ELSE IF th.call.op = "gc" /\ e.mode = "read"
    THEN LET ids == gc_ids(d.delete_at, t)
         IN [th EXCEPT !.ids = ids,
                       !.r = [NoReturn EXCEPT !.outcome = "Ok"],
                       !.plan = <<Rel("delete_at")>>
                                    \o (IF ids = << >> THEN <<End>>
                                        ELSE <<Acq("stats", "write")>>)]
    ELSE IF th.call.op = "get_stats"
    THEN [th EXCEPT !.r = [NoReturn EXCEPT !.outcome = "Ok"],
                    !.plan = <<End>>]
    ELSE IF th.call.op = "select_all"
             /\ e = Acq(index_lock(th.call.q.sort), "read")
             /\ Len(th.plan) = 2
    THEN [th EXCEPT !.ids = sorted_ids(d, th.call.q.sort,
                                       th.call.q.direction),
                    !.plan = Tail(@)]
    ELSE [th EXCEPT !.plan = Tail(@)]

\* a thread makes a call of the set calls
ThreadCall(t, calls) ==
    /\ threads[t].pc \in {"idle", "returned"}
    /\ stats.requests < MaxRequests
    /\ \E call \in calls :
           /\ call.op = "try_insert" => minted < MaxIds
           /\ minted' = IF call.op = "try_insert" THEN minted + 1 ELSE minted
           /\ threads' = [threads EXCEPT ![t] =
                  [IdleThread EXCEPT
                       !.pc = "busy",
                       !.call = [call EXCEPT !.id =
                                     IF call.op = "try_insert"
                                     THEN minted + 1 ELSE @],
                       !.plan = first_plan(call)]]
    /\ UNCHANGED <<values, key_index, created_at_index, delete_at_index,
                   updated_at_index, stats, poisoned, now, overflow_checks,
                   result, config, api_keys, files, gc_task, save_task,
                   callers, guards>>

\* lock.read().unwrap() or lock.write().unwrap(): the thread waits until
\* the guard is free; a poisoned lock makes unwrap() panic
ThreadAcquire(t) ==
    LET th == threads[t]
        e == Head(th.plan)
    IN /\ th.pc = "busy"
       /\ th.plan # << >>
       /\ e.e = "acquire"
       /\ IF e.mode = "write" THEN can_write(guards, e.lock)
          ELSE can_read(guards, e.lock)
       /\ IF e.lock \in poisoned
          THEN /\ threads' = [threads EXCEPT ![t] =
                      Finished(th, "panicked", Ret("Panic", 0))]
               /\ poisoned' = poisoned \cup write_held(guards, t)
               /\ guards' = drop_all(guards, t)
               /\ UNCHANGED <<values, key_index, created_at_index,
                              delete_at_index, updated_at_index, stats,
                              files>>
          ELSE LET sub == IF th.ids = << >> THEN th.call.id
                          ELSE Head(th.ids)
                   r == IF e.lock = "stats" /\ e.mode = "write"
                        THEN apply(th.call, sub, Db, config, api_keys,
                                   files, now, overflow_checks)
                        ELSE th.r
                   w(l) == e.lock = l /\ e.mode = "write"
               IN /\ threads' = [threads EXCEPT ![t] =
                         after_acquire(th, e, r, Db, now)]
                  /\ guards' = take(guards, e.lock, e.mode, t)
                  /\ stats' = IF w("stats") THEN r.db.stats ELSE stats
                  /\ values' = IF w("values") THEN r.db.values ELSE values
                  /\ key_index' = IF w("key") THEN r.db.key ELSE key_index
                  /\ created_at_index' = IF w("created_at")
                                         THEN r.db.created_at
                                         ELSE created_at_index
                  /\ delete_at_index' = IF w("delete_at")
                                        THEN r.db.delete_at
                                        ELSE delete_at_index
                  /\ updated_at_index' = IF w("updated_at")
                                         THEN r.db.updated_at
                                         ELSE updated_at_index
                  /\ files' = IF th.call.op = "save" /\ e.mode = "read"
                              THEN write_file(files, file_of(e.lock), Db,
                                              api_keys)
                              ELSE files
                  /\ poisoned' = poisoned
       /\ UNCHANGED <<now, minted, overflow_checks, result, config, api_keys,
                      gc_task, save_task, callers>>

\* a guard goes out of scope, or is dropped, before the method returns
ThreadRelease(t) ==
    LET th == threads[t]
    IN /\ th.pc = "busy"
       /\ th.plan # << >>
       /\ Head(th.plan).e = "release"
       /\ guards' = drop(guards, Head(th.plan).lock, t)
       /\ threads' = [threads EXCEPT ![t].plan = Tail(@)]
       /\ UNCHANGED <<values, key_index, created_at_index, delete_at_index,
                      updated_at_index, stats, poisoned, now, minted,
                      overflow_checks, result, config, api_keys, files,
                      gc_task, save_task, callers>>

\* select_all, lines 261-280: the pagination, then
\* values.get(&id).cloned().unwrap() for each id, then the return
ThreadLookup(t) ==
    LET th == threads[t]
        q == th.call.q
        ids == page_ids(th.ids, q.limit, q.page)
        aborts == overflow_checks /\ page_overflows(q.limit, q.page)
        missing == \E i \in 1..Len(ids) : ids[i] \notin DOMAIN values
    IN /\ th.pc = "busy"
       /\ th.plan # << >>
       /\ Head(th.plan).e = "lookup"
       /\ guards' = drop_all(guards, t)
       /\ IF aborts \/ missing
          THEN /\ threads' = [threads EXCEPT ![t] =
                      Finished(th, "panicked",
                               Ret(IF aborts THEN "Panic" ELSE "Missing",
                                   0))]
               /\ poisoned' = poisoned \cup write_held(guards, t)
          ELSE /\ threads' = [threads EXCEPT ![t] =
                      Finished(th, "returned",
                               Ret("Ok", 0))]
               /\ poisoned' = poisoned
       /\ UNCHANGED <<values, key_index, created_at_index, delete_at_index,
                      updated_at_index, stats, now, minted, overflow_checks,
                      result, config, api_keys, files, gc_task, save_task,
                      callers>>

\* the method returns and its guards drop; gc goes on with its next id
ThreadReturn(t) ==
    LET th == threads[t]
    IN /\ th.pc = "busy"
       /\ th.plan # << >>
       /\ Head(th.plan).e = "return"
       /\ guards' = drop_all(guards, t)
       /\ threads' = [threads EXCEPT ![t] =
              IF th.call.op = "gc" /\ th.ids # << >>
              THEN [th EXCEPT !.plan = <<Acq("stats", "write")>>]
              ELSE Finished(th, "returned",
                            Ret(th.r.outcome, th.r.rec.id))]
       /\ UNCHANGED <<values, key_index, created_at_index, delete_at_index,
                      updated_at_index, stats, poisoned, now, minted,
                      overflow_checks, result, config, api_keys, files,
                      gc_task, save_task, callers>>

\* unwrap() of None, or an overflow of a debug build: the thread unwinds,
\* its guards drop and the locks of its write guards are poisoned
ThreadPanic(t) ==
    LET th == threads[t]
    IN /\ th.pc = "busy"
       /\ th.plan # << >>
       /\ Head(th.plan).e = "panic"
       /\ guards' = drop_all(guards, t)
       /\ poisoned' = poisoned \cup write_held(guards, t)
       /\ threads' = [threads EXCEPT ![t] =
              Finished(th, "panicked", Ret("Panic", 0))]
       /\ UNCHANGED <<values, key_index, created_at_index, delete_at_index,
                      updated_at_index, stats, now, minted, overflow_checks,
                      result, config, api_keys, files, gc_task, save_task,
                      callers>>

\* the calls of the threads; the calls that take a key are made on a key
\* of the store
KeyCalls(op) ==
    {CallOf(op, k, v, ttl, None, 0, NoQuery) :
         k \in (IF op = "try_insert" THEN Keys ELSE DOMAIN key_index),
         v \in ConcValues, ttl \in Ttls}
CounterCalls(op) ==
    {CallOf(op, k, Integer(0), None, a, 0, NoQuery) :
         k \in DOMAIN key_index, a \in ConcAmounts}
PlainCalls(op) ==
    {CallOf(op, k, Integer(0), None, None, 0, NoQuery) : k \in DOMAIN key_index}
IdCalls ==
    {CallOf("try_delete_by_id", "", Integer(0), None, None, id, NoQuery) :
         id \in DOMAIN values}
ListQueries == {Query("Key", "Asc", None, None),
                Query("CreatedAt", "Desc", None, None),
                Query("UpdatedAt", "Asc", Some(1), Some(1))}
ListCalls ==
    {CallOf("select_all", "", Integer(0), None, None, 0, q) : q \in ListQueries}
BareCalls(ops) ==
    {CallOf(op, "", Integer(0), None, None, 0, NoQuery) : op \in ops}

\* try_insert, try_upsert, try_increment, try_decrement, try_delete_by_key,
\* try_delete_by_id, try_select, select_all, gc, save and get_stats
AllCalls ==
    KeyCalls("try_insert") \cup KeyCalls("try_upsert")
        \cup CounterCalls("try_increment") \cup CounterCalls("try_decrement")
        \cup PlainCalls("try_delete_by_key") \cup IdCalls
        \cup PlainCalls("try_select") \cup ListCalls
        \cup BareCalls({"gc", "save", "get_stats"})

\* the calls that insert, change and remove records
MutatorCalls ==
    KeyCalls("try_insert") \cup KeyCalls("try_upsert")
        \cup PlainCalls("try_delete_by_key") \cup IdCalls
        \cup BareCalls({"gc"})

\* one thread lists, the other inserts, changes and removes; the keys of
\* its calls stay in the store until it removes them itself, so none of
\* its calls unwinds
NextList ==
    \/ Tick
    \/ ThreadCall(1, ListCalls)
    \/ ThreadCall(2, MutatorCalls)
    \/ \E t \in Threads : ThreadAcquire(t)
    \/ \E t \in Threads : ThreadRelease(t)
    \/ \E t \in Threads : ThreadLookup(t)
    \/ \E t \in Threads : ThreadReturn(t)

SpecList == InitOf({ConfigDefault}, {FALSE}) /\ [][NextList]_vars

\* a store that holds key "a", inserted at instant 0 with ttl ttl_a
StoreA(ttl_a) == try_insert(NewDb, "a", Integer(0), ttl_a, 1, 0).db

\* the stores the threads start on: the store, the ids minted, the clock
Populated == {<<NewDb, 0, 0>>} \cup {<<StoreA(ttl), 1, 0>> : ttl \in Ttls}

\* the threads of the server on a store of Populated
InitLock ==
    /\ \E p \in Populated :
           /\ values = p[1].values
           /\ key_index = p[1].key
           /\ created_at_index = p[1].created_at
           /\ delete_at_index = p[1].delete_at
           /\ updated_at_index = p[1].updated_at
           /\ stats = p[1].stats
           /\ poisoned = p[1].poisoned
           /\ minted = p[2]
           /\ now = p[3]
    /\ overflow_checks \in BOOLEAN
    /\ result = [op |-> "new", key |-> "", arg |-> None, outcome |-> "Ok",
                 rec |-> NoRecord, q |-> NoQuery, list |-> << >>,
                 restored |-> NotRestored]
    /\ config = Config(TRUE, 2, 2)
    /\ api_keys = << >>
    /\ files = NoFiles
    /\ gc_task = NoGc
    /\ save_task = NoSave
    /\ callers = [c \in Callers |-> NoCall]
    /\ threads = [t \in Threads |-> IdleThread]
    /\ guards = NoGuards

\* each thread makes one call, of any method, and the calls interleave
NextLock ==
    \/ Tick
    \/ \E t \in Threads : threads[t].pc = "idle" /\ ThreadCall(t, AllCalls)
    \/ \E t \in Threads : ThreadAcquire(t)
    \/ \E t \in Threads : ThreadRelease(t)
    \/ \E t \in Threads : ThreadLookup(t)
    \/ \E t \in Threads : ThreadReturn(t)
    \/ \E t \in Threads : ThreadPanic(t)

SpecLock == InitLock /\ [][NextLock]_vars

\* fair scheduling: a thread that can take a step takes one
FairLock ==
    \A t \in Threads :
        WF_vars(ThreadAcquire(t) \/ ThreadRelease(t) \/ ThreadLookup(t)
                    \/ ThreadReturn(t) \/ ThreadPanic(t))

FairSpecLock == SpecLock /\ FairLock

TypeOK ==
    /\ DOMAIN values \subseteq Ids
    /\ DOMAIN key_index \subseteq Keys
    /\ now \in Times
    /\ minted \in 0..MaxIds
    /\ stats.requests \in 0..(MaxRequests + MaxIds)
    /\ poisoned \subseteq {"stats", "key", "values"}

\* ============================================================ properties
\* the primary map and the four indexes
Maps == <<values, key_index, created_at_index, delete_at_index,
          updated_at_index>>

\* key k resolves, through by_key, to a record of the primary map
Live(k) == k \in DOMAIN key_index /\ key_index[k] \in DOMAIN values

\* index idx has the entry k -> id
Entry(idx, k, id) == k \in DOMAIN idx /\ idx[k] = id

Abs(x) == IF x < 0 THEN 0 - x ELSE x

\* C1: in every state between calls, every record R of the primary map has
\* by_key[R.key] = R.id, by_created_at[R.created_at] = R.id,
\* by_updated_at[R.updated_at] = R.id, and by_delete_at holds
\* R.delete_at -> R.id exactly when R.delete_at is set (also when two
\* records share an instant).
CSIForward ==
    \A id \in DOMAIN values :
        LET R == values[id] IN
        /\ Entry(key_index, R.key, R.id)
        /\ Entry(created_at_index, R.created_at, R.id)
        /\ Entry(updated_at_index, R.updated_at, R.id)
        /\ R.delete_at.some => Entry(delete_at_index, R.delete_at.v, R.id)
        /\ ~R.delete_at.some =>
               \A t \in DOMAIN delete_at_index : delete_at_index[t] # R.id

\* C2: no two records of the primary map have the same key.
KeyUnique ==
    \A i, j \in DOMAIN values : i # j => values[i].key # values[j].key

\* C3: try_insert of a key that by_key contains fails with KeyExists and
\* changes neither the primary map nor an index; with the key absent it
\* allocates a new id, sets created_at = updated_at = now and installs the
\* record into the primary map and the indexes.
InsertKeyExists ==
    [][result'.op = "try_insert" =>
         IF result'.key \in DOMAIN key_index
         THEN result'.outcome = "KeyExists" /\ Maps' = Maps
         ELSE /\ result'.outcome = "Some"
              /\ result'.rec.id \notin DOMAIN values
              /\ result'.rec.created_at = now
              /\ result'.rec.updated_at = now
              /\ Entry(values', result'.rec.id, result'.rec)
              /\ Entry(key_index', result'.key, result'.rec.id)
              /\ Entry(created_at_index', now, result'.rec.id)
              /\ Entry(updated_at_index', now, result'.rec.id)
              /\ result'.arg.some =>
                     Entry(delete_at_index', now + result'.arg.v,
                           result'.rec.id)]_vars

\* C4: in every state between calls, every entry of by_key, by_created_at,
\* by_updated_at and by_delete_at maps to an id of the primary map, and
\* the entry's index key is that record's key, created_at, updated_at,
\* delete_at.
CSIReverse ==
    /\ \A k \in DOMAIN key_index :
           /\ key_index[k] \in DOMAIN values
           /\ values[key_index[k]].key = k
    /\ \A t \in DOMAIN created_at_index :
           /\ created_at_index[t] \in DOMAIN values
           /\ values[created_at_index[t]].created_at = t
    /\ \A t \in DOMAIN updated_at_index :
           /\ updated_at_index[t] \in DOMAIN values
           /\ values[updated_at_index[t]].updated_at = t
    /\ \A t \in DOMAIN delete_at_index :
           /\ delete_at_index[t] \in DOMAIN values
           /\ values[delete_at_index[t]].delete_at = Some(t)

\* C4 witness: a record was deleted while another record with a TTL is
\* still indexed.
CSIReverseWitness ==
    /\ result.op \in {"try_delete_by_id", "try_delete_by_key", "gc"}
    /\ stats.writes > minted
    /\ DOMAIN key_index # {}
    /\ DOMAIN delete_at_index # {}

\* C5: after gc() that read time T ran to completion, no record with
\* delete_at < T remains in the primary map.
GcRemovesExpired ==
    [][(result'.op = "gc" /\ result'.outcome = "Ok") =>
         \A id \in DOMAIN values' :
             ~(values'[id].delete_at.some /\ values'[id].delete_at.v < now)]_vars

\* C6: a try_upsert, try_increment or try_decrement that succeeds on key k
\* leaves under k a record with the id and created_at of the record that
\* was under k before; try_increment and try_decrement also keep its key
\* and delete_at.
IdentityPreserved ==
    [][(/\ result'.op \in {"try_upsert", "try_increment", "try_decrement"}
        /\ result'.outcome = "Some") =>
         /\ Live(result'.key)
         /\ LET old == values[key_index[result'.key]]
                new == result'.rec
            IN /\ Entry(key_index', result'.key, old.id)
               /\ Entry(values', old.id, new)
               /\ new.id = old.id
               /\ new.created_at = old.created_at
               /\ result'.op # "try_upsert" =>
                      new.key = old.key /\ new.delete_at = old.delete_at]_vars

\* C6 witness: an upsert succeeded on a record created at an earlier
\* instant and holding a TTL.
IdentityPreservedWitness ==
    /\ result.op = "try_upsert"
    /\ result.outcome = "Some"
    /\ result.rec.created_at < result.rec.updated_at
    /\ result.rec.created_at < now

\* C7: try_upsert, try_increment and try_decrement with a key that is not
\* in by_key return NotFound, change neither the primary map, an index nor
\* the write counter, and poison no lock.
MissingKeyNotFound ==
    [][(/\ result'.op \in {"try_upsert", "try_increment", "try_decrement"}
        /\ result'.key \notin DOMAIN key_index) =>
         /\ result'.outcome = "NotFound"
         /\ Maps' = Maps
         /\ stats'.writes = stats.writes
         /\ poisoned' = {}]_vars

\* C8: try_delete_by_key with a key that is not in by_key returns None and
\* changes neither the primary map nor an index; with an existing key it
\* removes the record and the index entries that referenced it and returns
\* the removed record.
DeleteByKeyContract ==
    [][result'.op = "try_delete_by_key" =>
         IF result'.key \notin DOMAIN key_index
         THEN result'.outcome = "None" /\ Maps' = Maps
         ELSE /\ result'.outcome = "Some"
              /\ Entry(values, key_index[result'.key], result'.rec)
              /\ result'.rec.id \notin DOMAIN values'
              /\ result'.key \notin DOMAIN key_index'
              /\ \A t \in DOMAIN created_at_index' :
                     created_at_index'[t] # result'.rec.id
              /\ \A t \in DOMAIN updated_at_index' :
                     updated_at_index'[t] # result'.rec.id
              /\ \A t \in DOMAIN delete_at_index' :
                     delete_at_index'[t] # result'.rec.id]_vars

\* the Db after the step
DbNext == [values |-> values', key |-> key_index',
           created_at |-> created_at_index', delete_at |-> delete_at_index',
           updated_at |-> updated_at_index', stats |-> stats',
           poisoned |-> poisoned']

\* the delta of a call: |amount|, 1 when no amount is given
Delta(amount) == IF amount.some THEN Abs(amount.v) ELSE 1

\* C9: on a record holding Integer(n), try_increment with amount a stores
\* Integer(n + |a|) and try_decrement stores Integer(n - |a|), for a
\* positive, zero or negative, the delta being 1 when no amount is given;
\* the returned record carries the stored value and a following
\* select_by_key returns it.
CounterStoresSum ==
    [][(/\ result'.op \in {"try_increment", "try_decrement"}
        /\ Live(result'.key)
        /\ values[key_index[result'.key]].value.tag = "Integer") =>
         LET id == key_index[result'.key]
             n == values[id].value.int
             m == IF result'.op = "try_increment"
                  THEN n + Delta(result'.arg)
                  ELSE n - Delta(result'.arg)
         IN /\ result'.outcome = "Some"
            /\ result'.rec.value = Integer(m)
            /\ Entry(values', id, result'.rec)
            /\ try_select(DbNext, result'.key).outcome = "Some"
            /\ try_select(DbNext, result'.key).rec.value = Integer(m)]_vars

\* The part of the counter contract that does not touch overflow: a call
\* on a usable store whose delta and result are representable stores and
\* returns n + |a| / n - |a|.
CounterStoresSumInRange ==
    [][(/\ result'.op \in {"try_increment", "try_decrement"}
        /\ Live(result'.key)
        /\ poisoned = {}
        /\ values[key_index[result'.key]].value.tag = "Integer"
        /\ InRange(Delta(result'.arg))
        /\ LET n == values[key_index[result'.key]].value.int IN
           InRange(IF result'.op = "try_increment"
                   THEN n + Delta(result'.arg)
                   ELSE n - Delta(result'.arg))) =>
         LET id == key_index[result'.key]
             n == values[id].value.int
             m == IF result'.op = "try_increment"
                  THEN n + Delta(result'.arg)
                  ELSE n - Delta(result'.arg)
         IN /\ result'.outcome = "Some"
            /\ result'.rec.value = Integer(m)
            /\ Entry(values', id, result'.rec)
            /\ try_select(DbNext, result'.key).rec.value = Integer(m)]_vars

\* C10: try_increment and try_decrement fail with ArithmeticOverflow and
\* leave the record unchanged whenever n + |amount| or n - |amount| is
\* outside the signed range or |amount| is not representable; the stored
\* value never wraps around.
OverflowChecked ==
    [][(/\ result'.op \in {"try_increment", "try_decrement"}
        /\ Live(result'.key)
        /\ values[key_index[result'.key]].value.tag = "Integer"
        /\ LET n == values[key_index[result'.key]].value.int
           IN \/ ~InRange(Delta(result'.arg))
              \/ result'.op = "try_increment" /\ ~InRange(n + Delta(result'.arg))
              \/ result'.op = "try_decrement" /\ ~InRange(n - Delta(result'.arg))) =>
         /\ result'.outcome = "ArithmeticOverflow"
         /\ values' = values]_vars

\* C11: try_increment or try_decrement on an existing key whose value is
\* not an Integer returns None and changes neither the record (value,
\* updated_at), the primary map, an index nor the writes counter.  (A call
\* on a store with a poisoned lock aborts; it is not a completed call.)
TypeMismatchNoOp ==
    [][(/\ result'.op \in {"try_increment", "try_decrement"}
        /\ poisoned = {}
        /\ Live(result'.key)
        /\ values[key_index[result'.key]].value.tag # "Integer") =>
         /\ result'.outcome = "None"
         /\ Maps' = Maps
         /\ stats'.writes = stats.writes
         /\ poisoned' = {}]_vars

\* C11 witness: a counter call returned None on a live String record at a
\* later instant than the record's updated_at.
TypeMismatchNoOpWitness ==
    /\ result.op \in {"try_increment", "try_decrement"}
    /\ result.outcome = "None"
    /\ Live(result.key)
    /\ values[key_index[result.key]].value.tag = "String"
    /\ values[key_index[result.key]].updated_at < now

\* ------------------------------------------------------------ select_all
\* the position of key k in the lexicographic order of the keys
KeyRank(k) == CHOOSE i \in 1..Len(KeyOrder) : KeyOrder[i] = k

\* the field of a record that sort orders by
SortField(rec, sort) ==
    IF sort = "Key" THEN KeyRank(rec.key)
    ELSE IF sort = "CreatedAt" THEN rec.created_at
    ELSE rec.updated_at

Ascending(list, sort) ==
    \A i, j \in 1..Len(list) :
        i < j => SortField(list[i], sort) <= SortField(list[j], sort)

Descending(list, sort) ==
    \A i, j \in 1..Len(list) :
        i < j => SortField(list[i], sort) >= SortField(list[j], sort)

\* list holds every record of the primary map m exactly once
EveryRecordOnce(list, m) ==
    /\ Len(list) = Cardinality(DOMAIN m)
    /\ \A id \in DOMAIN m : \E i \in 1..Len(list) : list[i] = m[id]

\* the result r of the unpaginated select_all(sort, direction) on Db is
\* complete and ordered, and Desc is the exact reverse of Asc
UnpaginatedContract(r, sort, direction) ==
    /\ r.outcome = "Ok"
    /\ EveryRecordOnce(r.list, values)
    /\ IF direction = "Asc"
       THEN Ascending(r.list, sort)
       ELSE /\ Descending(r.list, sort)
            /\ r.list = Reverse(select_all(Db, "Asc", None, None, sort,
                                           overflow_checks).list)

\* every unpaginated select_all call on the current store keeps the contract
UnpaginatedCalls ==
    \A sort \in Sorts, direction \in Directions :
        UnpaginatedContract(select_all(Db, direction, None, None, sort,
                                       overflow_checks), sort, direction)

\* C12: select_all without limit and page returns every record of the
\* primary map exactly once, ordered by the selected field (Key: key order;
\* CreatedAt / UpdatedAt: by instant), ascending for Asc and the exact
\* reverse for Desc; records whose instants tie all appear in the result.
\* (Stated for every store the calls can leave with no lock poisoned.)
SelectAllComplete == poisoned = {} => UnpaginatedCalls

\* C12 holds on the stores where every record has its index entries (no two
\* records share a key or an instant): the omission comes from C1 alone.
SelectAllCompleteIndexed == (poisoned = {} /\ CSIForward) => UnpaginatedCalls

\* ------------------------------------------------------------ pagination
\* the limits and page numbers the law is checked for: the pages that cover
\* the store, one page past its end, and a page whose skip overflows usize
LawLimits == {1, 2}
LawPages == 1..(MaxIds + 1)
FarPages == LawPages \cup {HugePage}

\* the first n elements of seq
Prefix(seq, n) == SubSeq(seq, 1, IF n < Len(seq) THEN n ELSE Len(seq))

\* select_all(sort, direction, limit, page) on the current store
List(sort, direction, limit, page) ==
    select_all(Db, direction, limit, page, sort, overflow_checks)

RECURSIVE PagesUpTo(_, _, _, _)
\* select_all(limit = L, page = 1) .. select_all(limit = L, page = k),
\* concatenated
PagesUpTo(sort, direction, L, k) ==
    IF k = 0 THEN << >>
    ELSE PagesUpTo(sort, direction, L, k - 1)
             \o List(sort, direction, Some(L), Some(k)).list

\* pages 1..k of limit L make up the first k * L unpaginated elements
ConcatLaw(sort, direction, L, k) ==
    /\ \A p \in 1..k : List(sort, direction, Some(L), Some(p)).outcome = "Ok"
    /\ PagesUpTo(sort, direction, L, k)
           = Prefix(List(sort, direction, None, None).list, k * L)

\* limit alone means page 1, page alone means limit 10
DefaultsLaw(sort, direction) ==
    /\ \A L \in LawLimits :
           List(sort, direction, Some(L), None)
               = List(sort, direction, Some(L), Some(1))
    /\ \A p \in {1, 2} :
           List(sort, direction, None, Some(p))
               = List(sort, direction, Some(10), Some(p))

\* page p of limit L starts past the end of the unpaginated result
PastEnd(sort, direction, L, p) ==
    (p - 1) * L >= Len(List(sort, direction, None, None).list)

\* a page past the end is an empty sequence
PastEndLaw(sort, direction, L, p) ==
    PastEnd(sort, direction, L, p) =>
        /\ List(sort, direction, Some(L), Some(p)).outcome = "Ok"
        /\ List(sort, direction, Some(L), Some(p)).list = << >>

\* the law for the limits in LawLimits and the page numbers in P
PaginationLawFor(P) ==
    \A sort \in Sorts, direction \in Directions :
        /\ DefaultsLaw(sort, direction)
        /\ \A L \in LawLimits :
               /\ \A k \in LawPages : ConcatLaw(sort, direction, L, k)
               /\ \A p \in P : PastEndLaw(sort, direction, L, p)

\* C13: on an unchanged store, for every sort, direction, limit L and
\* k >= 1, the concatenation of select_all(limit = L, page = 1) ..
\* select_all(limit = L, page = k) equals the first k * L elements of the
\* unpaginated select_all; a call with only one of limit / page uses
\* limit = 10 / page = 1 for the other; a page past the end is empty.
\* (Stated for every store the calls can leave with no lock poisoned.)
PaginationLaw == poisoned = {} => PaginationLawFor(FarPages)

\* C13 holds for the page numbers whose skip fits in usize
PaginationLawInRange == poisoned = {} => PaginationLawFor(LawPages)

\* ------------------------------------------------------------------ save
\* a complete save() call on a store with no poisoned lock
SaveCall == result'.op = "save" /\ poisoned = {}

\* what a save() call does when it is due and when it is not
SaveContract(due) ==
    /\ (result'.outcome = "Written") <=> due
    /\ result'.outcome = "Written" =>
           /\ \A f \in FileNames : files'[f].exists
           /\ stats'.saved_writes = stats.writes
           /\ stats'.last_saved_at = now
    /\ result'.outcome # "Written" =>
           /\ files' = files
           /\ stats' = stats

\* the save predicate with the triggers bound as threshold_writes :=
\* writes_trigger, min_interval_ms := interval_trigger
SaveDue(writes_trigger, interval_trigger) ==
    /\ config.data_dir
    /\ stats.writes - stats.saved_writes >= writes_trigger
    /\ (now - stats.last_saved_at) * 1000 >= interval_trigger

\* C14: save() writes a snapshot if and only if a data directory is
\* configured and writes - saved_writes >= save_triggered_by_threshold and
\* now - last_saved_at >= save_triggered_after_ms; a save that writes sets
\* saved_writes = writes and last_saved_at = now; a save that is not due
\* (such as a second save with fewer than threshold new writes in between)
\* writes no file and changes no counter.
SaveWhenDue ==
    [][SaveCall =>
           SaveContract(SaveDue(config.save_triggered_by_threshold,
                                config.save_triggered_after_ms))]_vars

\* C14 with the two triggers exchanged, as the call at db.rs 149-152 passes
\* them to can_save(threshold_writes, min_interval_ms)
SaveWhenDueAsCalled ==
    [][SaveCall =>
           SaveContract(SaveDue(config.save_triggered_after_ms,
                                config.save_triggered_by_threshold))]_vars

\* ------------------------------------------------------------ round trip
\* the primary map and the four indexes of the store d
MapsOf(d) == <<d.values, d.key, d.created_at, d.delete_at, d.updated_at>>

\* select_all(Key, Asc) without pagination on the store d
ListByKey(d) == select_all(d, "Asc", None, None, "Key", overflow_checks)

\* a restore() into a fresh store right after a save() that wrote
RestoreAfterSave ==
    /\ result.op = "save"
    /\ result.outcome = "Written"
    /\ result'.op = "restore"

\* C15: for any store state S reached by the calls, a save() that writes
\* followed by restore() into a fresh store on the same data directory
\* yields a store whose primary map and four indexes equal those of S, and
\* select_all(Key, Asc) returns the same sequence of records in both.
RoundTrip ==
    [][RestoreAfterSave =>
           /\ MapsOf(result'.restored.db) = MapsOf(Db)
           /\ ListByKey(result'.restored.db).outcome = ListByKey(Db).outcome
           /\ ListByKey(result'.restored.db).list = ListByKey(Db).list]_vars

\* a fresh store was restored from a snapshot of two records
RoundTripWitness ==
    /\ result.op = "restore"
    /\ Cardinality(DOMAIN result.restored.db.values) = 2
    /\ DOMAIN result.restored.db.key = Keys
    /\ MapsOf(result.restored.db) = MapsOf(Db)
    /\ Len(ListByKey(result.restored.db).list) = 2

\* ------------------------------------------------------------ lock order
\* the canonical order of the guards
CanonicalOrder ==
    <<"stats", "key", "values", "created_at", "delete_at", "updated_at">>
LockRank(l) == CHOOSE i \in 1..Len(CanonicalOrder) : CanonicalOrder[i] = l

Acquire(l) == [acquire |-> TRUE, lock |-> l]
Release(l) == [acquire |-> FALSE, lock |-> l]
\* the guards a call takes one after another and holds until it returns
Guards(ls) == [i \in 1..Len(ls) |-> Acquire(ls[i])]
\* a guard taken inside a block and dropped at its end
Scoped(taken, l) == IF taken THEN <<Acquire(l), Release(l)>> ELSE << >>

\* try_delete_by_id: delete_at is locked inside `if let Some(delete_at)`
delete_by_id_locks(r) ==
    IF r.outcome = "Some"
    THEN Guards(<<"stats", "values", "created_at">>)
             \o Scoped(r.rec.delete_at.some, "delete_at")
             \o Guards(<<"key", "updated_at">>)
    ELSE Guards(<<"stats", "values">>)

\* the guards the call recorded in r (a call that returned) acquired and
\* released before its return, in the order of the code
LockTrace(r) ==
    CASE r.op = "try_insert" ->
             Guards(<<"stats", "values", "created_at">>)
                 \o Scoped(r.rec.delete_at.some, "delete_at")
                 \o Guards(<<"key", "updated_at">>)
      [] r.op = "try_upsert" ->
             Guards(<<"stats", "key", "values", "delete_at", "updated_at">>)
      [] r.op \in {"try_increment", "try_decrement"} ->
             IF r.outcome = "Some"
             THEN Guards(<<"stats", "key", "values", "updated_at">>)
             ELSE Guards(<<"stats", "key", "values">>)
      [] r.op = "try_delete_by_id" -> delete_by_id_locks(r)
      [] r.op = "try_delete_by_key" ->
             Scoped(TRUE, "key") \o delete_by_id_locks(r)
      [] r.op = "try_select" ->
             IF r.outcome = "Some" THEN Guards(<<"stats", "key", "values">>)
             ELSE Guards(<<"stats", "key">>)
      [] r.op = "select_all" ->
             Guards(<<"stats", "values">>)
                 \o Guards(<<IF r.q.sort = "Key" THEN "key"
                             ELSE IF r.q.sort = "CreatedAt" THEN "created_at"
                             ELSE "updated_at">>)
      [] r.op = "save" ->
             IF r.outcome = "Written"
             THEN Guards(<<"stats">>) \o Scoped(TRUE, "api_keys")
                      \o Guards(<<"created_at", "delete_at", "key",
                                  "updated_at", "values">>)
             ELSE IF config.data_dir THEN Guards(<<"stats">>)
             ELSE << >>

\* the guards held after the first n events of trace
HeldAfter(trace, n) ==
    {l \in {trace[i].lock : i \in 1..n} :
        LET last == CHOOSE i \in 1..n :
                        /\ trace[i].lock = l
                        /\ \A j \in 1..n : trace[j].lock = l => j <= i
        IN trace[last].acquire}

\* every guard of the canonical order is acquired while no guard that
\* follows it, or itself, is held
InCanonicalOrder(trace) ==
    \A i \in 1..Len(trace) :
        (trace[i].acquire /\ trace[i].lock \in Range(CanonicalOrder)) =>
            \A h \in HeldAfter(trace, i - 1) \cap Range(CanonicalOrder) :
                LockRank(h) < LockRank(trace[i].lock)

LockOps == {"try_insert", "try_upsert", "try_increment", "try_decrement",
            "try_delete_by_id", "try_select", "select_all", "save"}

\* C16: every Store operation (try_insert, try_upsert, try_increment,
\* try_decrement, try_delete_by_id, try_select, select_all, save) acquires
\* its guards in the order stats, by_key, primary map, by_created_at,
\* by_delete_at, by_updated_at: it never acquires a guard that precedes, in
\* this order, a guard it already holds.  (Stated for the last call, when
\* it returned.)
CanonicalLockOrder ==
    (result.op \in LockOps /\ result.outcome # "Panic") =>
        InCanonicalOrder(LockTrace(result))

\* the operations that do keep the canonical order
CanonicalLockOrderKept ==
    (/\ result.op \in {"try_upsert", "try_increment", "try_decrement",
                       "try_select", "select_all"}
     /\ result.outcome # "Panic"
     /\ result.q.sort # "Key") =>
        InCanonicalOrder(LockTrace(result))

\* -------------------------------------------------------------- counters
\* the calls that count a request
CountedOps == {"try_select", "select_all", "try_insert", "try_upsert",
               "try_increment", "try_decrement", "try_delete_by_id"}
\* the calls that write or remove a record when they return one
WriteOps == {"try_insert", "try_upsert", "try_increment", "try_decrement",
             "try_delete_by_id"}

\* a call of one of the seven operations on a store with no poisoned lock
CountedCall == result'.op \in CountedOps /\ poisoned = {}

ZeroCounters ==
    /\ stats.requests = 0
    /\ stats.reads = 0
    /\ stats.writes = 0
    /\ stats.saved_writes = 0

RequestsCounted == stats'.requests = stats.requests + 1

\* the records the call returned from try_select / select_all
RecordsRead ==
    IF result'.op = "try_select" /\ result'.outcome = "Some" THEN 1
    ELSE IF result'.op = "select_all" THEN Len(result'.list)
    ELSE 0
ReadsCounted == stats'.reads = stats.reads + RecordsRead

\* writes goes up by one exactly when `written`, and is unchanged otherwise
WritesCounted(written) ==
    stats'.writes = stats.writes + (IF written THEN 1 ELSE 0)

\* the call changed the primary map
MapChanged == values' # values
\* the call wrote or removed a record of the primary map and returned it
RecordWritten == result'.op \in WriteOps /\ result'.outcome = "Some"

GetStatsCountsNothing ==
    (result'.op = "get_stats" /\ poisoned = {}) => stats' = stats

NeverDecrease ==
    /\ stats'.requests >= stats.requests
    /\ stats'.reads >= stats.reads
    /\ stats'.writes >= stats.writes
    /\ stats'.saved_writes >= stats.saved_writes

\* the accounting of one step, with `written` deciding the writes counter
Accounting(written) ==
    /\ CountedCall => (RequestsCounted /\ ReadsCounted /\ WritesCounted(written))
    /\ GetStatsCountsNothing
    /\ NeverDecrease

\* C17 as stated: a fresh store has requests = reads = writes =
\* saved_writes = 0; every call of the seven operations increases requests
\* by exactly 1; writes increases by exactly 1 if and only if the call
\* changed the primary map; reads increases by 1 per record returned by
\* try_select / select_all; get_stats changes no counter; counters never
\* decrease.
CounterAccountingByChange == ZeroCounters /\ [][Accounting(MapChanged)]_vars

\* C17, amended: as stated, except that writes increases by exactly 1 if
\* and only if the call wrote or removed a record of the primary map (it
\* returned a record from try_insert, try_upsert, try_increment,
\* try_decrement or try_delete_by_id), also when the map holds the same
\* records afterwards.
CounterAccounting == ZeroCounters /\ [][Accounting(RecordWritten)]_vars

\* an upsert rewrote the only record at the instant of its insert: two
\* requests, two writes, one record
CounterAccountingWitness ==
    /\ result.op = "try_upsert"
    /\ result.outcome = "Some"
    /\ poisoned = {}
    /\ stats.requests = 2
    /\ stats.writes = 2
    /\ Cardinality(DOMAIN values) = 1
    /\ result.rec.updated_at = result.rec.created_at

\* --------------------------------------------------- gc under interleaving
\* C19: gc never deletes a live, unexpired record: under any interleaving of
\* gc() with concurrent try_upsert calls, every record that gc removes has,
\* at the moment of its removal, a delete_at that is set and strictly
\* earlier than the time gc read; a record whose TTL was renewed or cleared
\* by an upsert after gc collected its id is not removed.
GcOnlyExpired ==
    [][(result'.op = "gc_delete" /\ result'.outcome = "Some") =>
           /\ result'.rec.delete_at.some
           /\ result'.rec.delete_at.v < gc_task.now]_vars

\* without a call between the scan and the delete, the record gc removes
\* first is expired at the time gc read
GcOnlyExpiredAtScan ==
    [][(result.op = "gc_scan" /\ result'.op = "gc_delete"
            /\ result'.outcome = "Some") =>
           /\ result'.rec.delete_at.some
           /\ result'.rec.delete_at.v < gc_task.now]_vars

\* ------------------------------------------------ save under interleaving
\* a save() is between its can_save test and its return
Saving == save_task.step > 0

\* what the four index files and values.db hold, read back
SnapshotMaps(f) ==
    <<values_from_json(read_file(f, DATABASE_FILE)),
      key_index_from_json(read_file(f, KEY_INDEX_FILE)),
      index_from_json(read_file(f, CREATED_AT_INDEX_FILE)),
      index_from_json(read_file(f, DELETE_AT_INDEX_FILE)),
      index_from_json(read_file(f, UPDATED_AT_INDEX_FILE))>>

\* C20: under any interleaving of save() with concurrent try_insert,
\* try_upsert, try_increment, try_decrement, try_delete_by_id and gc, no
\* mutation of the primary map or of an index takes effect between the
\* first and the last file write of that save, and the four index files and
\* values.db written by one save all reflect one and the same store state
\* (the state of the store during the save).
SnapshotConsistent ==
    [][/\ Saving => MapsOf(Db)' = MapsOf(Db)
       /\ (result'.op = "save" /\ result'.outcome = "Written") =>
              SnapshotMaps(files') = MapsOf(Db)]_vars

\* a save is writing its files while a gc that has collected an id waits
\* for the stats guard
SnapshotConsistentWitness ==
    /\ save_task.step = 4
    /\ gc_task.running
    /\ gc_task.ids # << >>
    /\ Head(gc_task.ids) \in DOMAIN values

\* ------------------------------------------------------- api-key bootstrap
\* the callers whose api_key_init returned an identifier
Minters == {c \in Callers : callers[c].ret.some}

\* every caller's api_key_init has returned
AllDone == \A c \in Callers : callers[c].pc = "done"

\* identifier u was inserted by some call
Inserted(u) == \E c \in Callers : callers[c].ret = Some(u)

\* at most one call has returned an identifier, the set holds exactly that
\* identifier, exactly one call has returned one when all have returned,
\* and the set contains the identifiers inserted and no other
OneBootstrapKey ==
    /\ Cardinality(Minters) <= 1
    /\ \A c \in Minters : api_keys = <<callers[c].ret.v>>
    /\ AllDone => Cardinality(Minters) = 1
    /\ \A u \in ApiKeyIds : api_key_exists(api_keys, u) <=> Inserted(u)

\* api_key_init returns a new identifier and inserts it when the set is
\* empty, and otherwise returns None and leaves the set unchanged;
\* api_key_exists answers true exactly for an identifier inserted
ApiKeyCalls ==
    /\ \A c \in Callers :
           (callers[c].pc # "done" /\ callers'[c].pc = "done") =>
               IF is_empty(api_keys)
               THEN /\ callers'[c].ret.some
                    /\ api_keys' = <<callers'[c].ret.v>>
               ELSE /\ callers'[c].ret = None
                    /\ api_keys' = api_keys
    /\ (result'.op = "api_key_exists" /\ callers' = callers) =>
           (result'.outcome = "True" <=> Inserted(result'.arg.v))

\* C18: api_key_init returns a new identifier and inserts it only when the
\* key set is empty, otherwise returns None and leaves the set unchanged;
\* under any interleaving of concurrent api_key_init calls on an empty set
\* exactly one call returns an identifier, the set ends with exactly that
\* one element, and api_key_exists is true for it and false for every
\* identifier never inserted.
ApiKeyBootstrap == []OneBootstrapKey /\ [][ApiKeyCalls]_vars

\* every concurrent call has returned, one with the identifier and another
\* with None, and api_key_exists has just denied another identifier
ApiKeyBootstrapWitness ==
    /\ AllDone
    /\ \E c \in Callers : callers[c].ret.some
    /\ \E c \in Callers : ~callers[c].ret.some
    /\ result.op = "api_key_exists"
    /\ result.outcome = "False"

\* ------------------------------------------------------- save and Io errors
\* the save() just made returned an Io error
SaveFailed == result'.op = "save" /\ result'.outcome = "Io"

\* a save() made now would get past can_save
SaveIsDue == writes_reached(Db, config, now) > 0

\* a failed save leaves saved_writes and last_saved_at as they were, the
\* writes still count as unsaved and a save made next tries again
FailedSaveKeepsUnsaved ==
    SaveFailed =>
        /\ stats'.saved_writes = stats.saved_writes
        /\ stats'.last_saved_at = stats.last_saved_at
        /\ SaveIsDue'

\* C24: a save() that fails with an Io error while writing any of the six
\* files returns that error to the caller and leaves saved_writes and
\* last_saved_at unchanged, so the writes are still counted as unsaved and
\* the next save() with the predicate still true attempts the snapshot
\* again; in every reachable state saved_writes <= writes.
IoErrorKeepsUnsaved ==
    /\ [](stats.saved_writes <= stats.writes)
    /\ [][FailedSaveKeepsUnsaved]_vars

\* a save failed at a write after the first: the file written before it is
\* there, values.db is not, and the writes are still unsaved
IoErrorKeepsUnsavedWitness ==
    /\ result.op = "save"
    /\ result.outcome = "Io"
    /\ files[API_KEYS_FILE].exists
    /\ ~files[DATABASE_FILE].exists
    /\ stats.writes - stats.saved_writes >= 2
    /\ stats.saved_writes = 0

\* ------------------------------------------- select_all among the writers
\* thread t is in select_all, about to look its ids up in the primary map
AtLookup(t) ==
    /\ threads[t].pc = "busy"
    /\ threads[t].plan # << >>
    /\ Head(threads[t].plan) = Lookup

\* C22: under any interleaving of select_all with concurrent try_insert,
\* try_upsert, try_delete_by_id, try_delete_by_key and gc, every id that
\* select_all takes from an index is found in the primary map when it is
\* looked up: no select_all fails on an id that is in an index but absent
\* from the primary map.
SelectAllFindsRecords ==
    \A t \in Threads :
        /\ threads[t].ret.outcome # "Missing"
        /\ AtLookup(t) =>
               \A i \in 1..Len(threads[t].ids) :
                   threads[t].ids[i] \in DOMAIN values

\* a select_all is about to look up the id of a record that another thread
\* has set out to delete: that thread waits for the stats guard
SelectAllFindsRecordsWitness ==
    /\ AtLookup(1)
    /\ threads[2].pc = "busy"
    /\ threads[2].call.op \in {"try_delete_by_key", "gc"}
    /\ threads[2].ids # << >>
    /\ Head(threads[2].ids) \in Range(threads[1].ids)
    /\ Head(threads[2].plan) = Acq("stats", "write")

\* ------------------------------------------- two try_delete_by_key calls
\* the call of thread t is over, by return or by panic
Done(t) == threads[t].pc \in {"returned", "panicked"}

\* threads t1 and t2 have each finished a try_delete_by_key of key k; both
\* calls were made while k was in by_key
BothDeleted(t1, t2, k) ==
    /\ t1 # t2
    /\ Done(t1)
    /\ Done(t2)
    /\ threads[t1].call.op = "try_delete_by_key"
    /\ threads[t2].call.op = "try_delete_by_key"
    /\ threads[t1].call.key = k
    /\ threads[t2].call.key = k

\* the key and the record that one of the two calls returned are gone
KeyAndRecordGone(t1, t2, k) ==
    /\ k \notin DOMAIN key_index
    /\ \A t \in {t1, t2} :
           threads[t].ret.outcome = "Some" =>
               threads[t].ret.id \notin DOMAIN values

\* C23: of two try_delete_by_key calls on the same existing key that run
\* concurrently, under every interleaving of the key lookup and the delete
\* by id, exactly one returns the deleted record, the other returns None,
\* neither aborts, and afterwards the key is absent from by_key and the
\* record from the primary map.
TwoDeletesByKey ==
    \A t1, t2 \in Threads : \A k \in Keys :
        BothDeleted(t1, t2, k) =>
            /\ \E t \in {t1, t2} :
                   /\ threads[t].ret.outcome = "Some"
                   /\ \A u \in {t1, t2} \ {t} : threads[u].ret.outcome = "None"
            /\ KeyAndRecordGone(t1, t2, k)

\* what the code does: one call returns the record, the other returns None
\* if it looked the key up before the delete and panics if it looked up
\* after it
TwoDeletesByKeyOrPanic ==
    \A t1, t2 \in Threads : \A k \in Keys :
        BothDeleted(t1, t2, k) =>
            /\ \E t \in {t1, t2} :
                   /\ threads[t].ret.outcome = "Some"
                   /\ \A u \in {t1, t2} \ {t} :
                          threads[u].ret.outcome \in {"None", "Panic"}
            /\ KeyAndRecordGone(t1, t2, k)

\* ---------------------------------------------------------- deadlock
\* thread t is in a call
Busy(t) == threads[t].pc = "busy"

\* thread t waits for a guard that another thread holds
Waits(t) ==
    /\ Busy(t)
    /\ threads[t].plan # << >>
    /\ Head(threads[t].plan).e = "acquire"
    /\ ~(IF Head(threads[t].plan).mode = "write"
         THEN can_write(guards, Head(threads[t].plan).lock)
         ELSE can_read(guards, Head(threads[t].plan).lock))

\* some thread in a call can take its next step
NoDeadlock == (\E t \in Threads : Busy(t)) => \E t \in Threads : Busy(t) /\ ~Waits(t)

\* C21: for threads concurrently running any mix of try_insert, try_upsert,
\* try_increment, try_decrement, try_delete_by_key, try_delete_by_id,
\* try_select, select_all, gc, save and get_stats on existing keys, there
\* is no reachable state in which every unfinished thread waits for a guard
\* held by another; under fair scheduling every call returns.
DeadlockFree ==
    /\ []NoDeadlock
    /\ \A t \in Threads : Busy(t) ~> (threads[t].pc = "returned")

\* what the code does: no deadlock, and every call returns or panics
DeadlockFreeOrPanic ==
    /\ []NoDeadlock
    /\ \A t \in Threads : Busy(t) ~> Done(t)

====
